---- MODULE Spec2Model ----
(***************************************************************************)
(* Reconciliation pass of the ds389 ansible collection                     *)
(* (plugins/module_utils/ds389_entities.py, ds389_util.py and              *)
(* plugins/modules/ds389_module.py).                                       *)
(*                                                                         *)
(* One host is modelled with one instance name (i1), one backend (be1) on  *)
(* one suffix and one index (idx1) of that backend.  The directory server  *)
(* and lib389 are the environment: their state is the record srv, and each *)
(* lib389 call the code makes is an effect on srv.  A pass is evaluated as *)
(* one operator chain that threads a context record through the handlers   *)
(* in the order the code runs them; an exception stops the chain.          *)
(***************************************************************************)
EXTENDS Integers, Sequences, FiniteSets, TLC

VARIABLES srv, desired, last

vars == <<srv, desired, last>>

(* ------------------------------------------------------------------ *)
(* Bounds and program constants                                        *)
(* ------------------------------------------------------------------ *)

\* Replica ids a desired tree may declare: 1..MaxRid (0 stands for "not set").
MaxRid == 2

\* Replica id lib389 gives a hub or a consumer (tests/.../test_replica_roles.py).
HubRid == 65535

Roles == {"None", "consumer", "hub", "supplier"}

States == {"present", "updated", "absent"}

\* ConfigBackend.REPL_ROLES: the promote weight of a role.
Weight(role) ==
    CASE role = "supplier" -> 3
      [] role = "hub"      -> 2
      [] role = "consumer" -> 1
      [] OTHER             -> 0

\* ConfigBackend.REPL_ROLES: nsDS5ReplicaType of a role.
ReplicaType(role) ==
    CASE role = "supplier" -> "3"
      [] role = "hub"      -> "2"
      [] role = "consumer" -> "2"
      [] OTHER             -> "0"

\* ConfigBackend.REPL_ROLES: nsDS5Flags of a role.
ReplicaFlags(role) ==
    CASE role = "supplier" -> "1"
      [] role = "hub"      -> "1"
      [] role = "consumer" -> "0"
      [] OTHER             -> "0"

(* ------------------------------------------------------------------ *)
(* The server (environment) state                                      *)
(* ------------------------------------------------------------------ *)

DefaultPort == "389"

NoServer ==
    [inst |-> FALSE, run |-> FALSE, port |-> DefaultPort, be |-> FALSE,
     role |-> "None", rid |-> 0, idx |-> FALSE]

\* A server state is well formed when children exist only under their parent
\* and the replica id fits the role.
WellFormed(s) ==
    /\ (~s.inst => s = NoServer)
    /\ (~s.be => (s.role = "None" /\ ~s.idx))
    /\ (s.role = "None" => s.rid = 0)
    /\ (s.role = "supplier" => s.rid \in 1..MaxRid)
    /\ (s.role \in {"hub", "consumer"} => s.rid = HubRid)

\* The replicas a backend can carry: none, a hub or a consumer (lib389 gives
\* them HubRid) or a supplier with its own id.
Replicas ==
    {[role |-> "None", rid |-> 0]}
        \cup {[role |-> r, rid |-> HubRid] : r \in {"hub", "consumer"}}
        \cup {[role |-> "supplier", rid |-> i] : i \in 1..MaxRid}

ServerStates ==
    {NoServer}
        \cup {[NoServer EXCEPT !.inst = TRUE, !.run = r, !.port = p] :
                r \in BOOLEAN, p \in {DefaultPort, "1389"}}
        \cup {[inst |-> TRUE, run |-> r, port |-> p, be |-> TRUE, role |-> rep.role,
               rid |-> rep.rid, idx |-> i] :
                r \in BOOLEAN, p \in {DefaultPort, "1389"}, rep \in Replicas,
                i \in BOOLEAN}

(* ------------------------------------------------------------------ *)
(* The desired tree, as the argument spec delivers it                  *)
(* ------------------------------------------------------------------ *)

\* "started" is a bool in the argument spec; a tree read by from_path or
\* from_stdin may carry a string instead.
StartedValues == {"bool:True", "bool:False", "str:stopped"}

NoInstance ==
    [instState |-> "present", started |-> "bool:True", port |-> "None",
     beDecl |-> FALSE]

NoBackend ==
    [beState |-> "present", role |-> "None", rid |-> 0, idxDecl |-> FALSE,
     idxState |-> "present"]

\* Fields of an undeclared entity carry their defaults, so that two trees that
\* differ only there are one tree.
Canonical(d) ==
    /\ (~d.instDecl =>
            /\ d.instState = NoInstance.instState /\ d.started = NoInstance.started
            /\ d.port = NoInstance.port /\ ~d.beDecl)
    /\ (d.instState = "absent" =>
            /\ d.started = NoInstance.started /\ d.port = NoInstance.port
            /\ ~d.beDecl)
    /\ (~d.beDecl =>
            /\ d.beState = NoBackend.beState /\ d.role = NoBackend.role
            /\ d.rid = NoBackend.rid /\ ~d.idxDecl)
    /\ (~d.idxDecl => d.idxState = NoBackend.idxState)

\* The backends list of an instance: empty, or be1 with or without idx1.
DesiredBackends ==
    {[beDecl |-> FALSE, beState |-> NoBackend.beState, role |-> NoBackend.role,
      rid |-> NoBackend.rid, idxDecl |-> FALSE, idxState |-> NoBackend.idxState]}
        \cup {[beDecl |-> TRUE, beState |-> bs, role |-> r, rid |-> i,
               idxDecl |-> x[1], idxState |-> x[2]] :
                bs \in States, r \in Roles, i \in 0..MaxRid,
                x \in {<<FALSE, NoBackend.idxState>>} \cup ({TRUE} \X States)}

\* The instances list of the root: empty, or i1 absent, or i1 present.
DesiredInstances ==
    {[instDecl |-> x[1], instState |-> x[2], started |-> NoInstance.started,
      port |-> NoInstance.port, b |-> CHOOSE b \in DesiredBackends : ~b.beDecl] :
        x \in {<<FALSE, NoInstance.instState>>, <<TRUE, "absent">>}}
        \cup {[instDecl |-> TRUE, instState |-> "present", started |-> st,
               port |-> p, b |-> b] :
                st \in StartedValues, p \in {"None", "1389"}, b \in DesiredBackends}

DesiredTrees ==
    {[rootState |-> rs, instDecl |-> i.instDecl, instState |-> i.instState,
      started |-> i.started, port |-> i.port, beDecl |-> i.b.beDecl,
      beState |-> i.b.beState, role |-> i.b.role, rid |-> i.b.rid,
      idxDecl |-> i.b.idxDecl, idxState |-> i.b.idxState] :
        rs \in States, i \in DesiredInstances}

(* ------------------------------------------------------------------ *)
(* The context a pass threads through its handlers                     *)
(* ------------------------------------------------------------------ *)

\* srv: the live server; sum: the summary list; chg: ConfigRoot._changes;
\* ops: the state-changing lib389 calls issued so far; err: the exception that
\* ended the pass ("" while none); mustCreate, initial_state, cache: the
\* ConfigInstance fields _mustCreate, _initial_state and _DirSrv; facts: which
\* entities the fact tree read by getFacts() holds (i1 among the root's
\* instances, be1 among its backends, idx1 among the indexes of be1); staged:
\* the modifiers of _cfgMods that were handed to applyMods.
FactTree(s) == [inst |-> s.inst, be |-> s.be, idx |-> s.be /\ s.idx]

NewCtx(s) ==
    [srv |-> s, sum |-> <<>>, chg |-> <<>>, ops |-> <<>>, err |-> "",
     mustCreate |-> FALSE, initial_state |-> "unknown", cache |-> {},
     facts |-> FactTree(s), staged |-> <<>>]

Op(name, arg, rid) == [op |-> name, arg |-> arg, rid |-> rid]

Emit(c, o) == [c EXCEPT !.ops = Append(@, o)]

Say(c, msg) == [c EXCEPT !.sum = Append(@, msg)]

Fail(c, e) == [c EXCEPT !.err = e]

(* ------------------------------------------------------------------ *)
(* lib389 calls: their effect on the server                            *)
(* ------------------------------------------------------------------ *)

\* DirSrv.start(): the server runs afterwards.
Start(c) == Emit([c EXCEPT !.srv.run = TRUE], Op("start", "i1", 0))

\* DirSrv.stop(): the server is stopped afterwards.
Stop(c) == Emit([c EXCEPT !.srv.run = FALSE], Op("stop", "i1", 0))

\* SetupDs.create_from_args(general, slapd, backends): a new running instance
\* with the configured port and no backend (create() fills no backend section).
CreateInstance(c, port) ==
    Emit([c EXCEPT !.srv = [NoServer EXCEPT !.inst = TRUE, !.run = TRUE,
                                            !.port = IF port = "None" THEN DefaultPort
                                                     ELSE port]],
         Op("dscreate", "i1", 0))

\* A DirSrv.delete() that leaves the instance in place.
DeleteInstance_keeps(c) == Emit(c, Op("delete_instance", "i1", 0))

\* DirSrv.delete(): the instance is removed with all it holds; removing an
\* instance that is already gone leaves the host as it is.
DeleteInstance(c) == Emit([c EXCEPT !.srv = NoServer], Op("delete_instance", "i1", 0))

\* ConfigInstance._getInstanceStatus on the live server.
InstanceStatus(s) ==
    IF ~s.inst THEN "absent" ELSE IF s.run THEN "started" ELSE "stopped"

\* ConfigInstance.getDirSrv(mode): a DirSrv cached for the mode is returned as
\* it is; otherwise the status is read, _initial_state is set on the first read
\* and the modes NOLDAPI and OPEN start a stopped server.  The caller gets None
\* exactly when the instance does not exist (c.srv.inst is false afterwards).
getDirSrv(c, mode) ==
    IF c.err # "" THEN c
    ELSE IF c.srv.inst /\ mode \in c.cache THEN c
    ELSE LET status == InstanceStatus(c.srv)
             c1 == [c EXCEPT !.cache = IF c.srv.inst THEN @ \cup {mode} ELSE @,
                             !.initial_state = IF @ = "unknown" THEN status ELSE @]
         IN  IF status = "stopped" /\ mode \in {"NOLDAPI", "OPEN"}
             THEN Start(c1)
             ELSE c1

(* ------------------------------------------------------------------ *)
(* Staged modifications and their filtering                            *)
(* ------------------------------------------------------------------ *)

IDXDN == "cn=idx1,cn=index,cn=be1,cn=ldbm database,cn=plugins,cn=config"

BEDN == "cn=be1,cn=ldbm database,cn=plugins,cn=config"

\* The entry that the dseMods of an instance name, and its attribute.
MODDN == "cn=a,cn=config"

MODATTR == "nsslapd-a"

\* ReplicaOption.DSEDN as synchronize_properties passes it: the template,
\* which names no entry.
REPLICADN == "cn=replica,cn={suffix},cn=mapping tree,cn=config"

\* Option._action, UPDATE: one replaceValue modifier staged in _cfgMods.
Mod(dn, attr, val) == [dn |-> dn, attr |-> attr, val |-> val]

\* Entry.fromDS(dirSrv, dn): whether the live server holds the entry.
EntryExists(s, dn) ==
    CASE dn = "cn=config" -> s.inst
      [] dn = BEDN        -> s.inst /\ s.be
      [] dn = IDXDN       -> s.inst /\ s.idx
      [] dn = MODDN       -> s.inst /\ s.entry
      [] OTHER            -> FALSE

\* The value the live entry holds for the attribute.
LiveValue(s, attr) ==
    CASE attr = "nsslapd-port"     -> s.port
      [] attr = "nsslapd-suffix"   -> "dc=example,dc=com"
      [] attr = "nsslapd-readonly" -> "off"
      [] attr = "nsIndexType"      -> "['eq']"
      [] attr = "nsSystemIndex"    -> "false"
      [] attr = MODATTR            -> s.val
      [] OTHER                     -> ""

\* list.sort() sorts in place and returns None, whatever the list holds.
PySortResult(vals) == "None"

\* Entry.hasSameAttributes(entry, (attr,)): compares what sort() returns.
hasSameAttributes(cur, vals) == ~(PySortResult(cur) # PySortResult(vals))

\* ConfigInstance.isAttrUpToDate(entry, attr, vals).
isAttrUpToDate(entryExists, cur, vals) ==
    IF ~entryExists THEN TRUE ELSE hasSameAttributes(cur, vals)

\* ConfigInstance._filter_ops_replace_value_cb: the replace operations kept for
\* one staged modifier, against the live server s.
filter_ops_replace_value_cb(s, mod) ==
    IF EntryExists(s, mod.dn)
       /\ ~isAttrUpToDate(EntryExists(s, mod.dn), LiveValue(s, mod.attr), mod.val)
    THEN <<Op("modify", mod.attr, 0)>>
    ELSE <<>>

\* ConfigInstance.filterOps over a sequence of staged replaceValue modifiers.
RECURSIVE filterOps(_, _)
filterOps(s, mods) ==
    IF mods = <<>> THEN <<>>
    ELSE filter_ops_replace_value_cb(s, Head(mods)) \o filterOps(s, Tail(mods))

\* An applyMods that stops the server for every started value that is not
\* true, a string included.
applyModsOpen_stops_early(c, mods, started, onlycheck) ==
    IF c.err # "" THEN c
    ELSE IF ~c.srv.inst
    THEN Fail(c, "AttributeError: 'NoneType' object has no attribute 'close'")
    ELSE IF onlycheck THEN c
    ELSE IF started # "bool:True" THEN Stop(c)
    ELSE Start(c)

\* ConfigInstance.applyMods after getDirSrv(): c holds what getDirSrv left.  A
\* kept replace operation is built with LdapOp.REPLACE, a name LdapOp does
\* not define.
applyModsOpen(c, mods, started, onlycheck) ==
    IF c.err # "" THEN c
    ELSE IF ~c.srv.inst
    THEN Fail(c, "AttributeError: 'NoneType' object has no attribute 'close'")
    ELSE IF filterOps(c.srv, mods) # <<>>
    THEN Fail(c, "AttributeError: LdapOp has no attribute 'REPLACE'")
    ELSE IF onlycheck THEN c
    ELSE IF started = "bool:False" THEN Stop(c)
    ELSE Start(c)

\* ConfigInstance.applyMods(mods, summary, onlycheck).
applyMods(c, mods, started, onlycheck) ==
    IF c.err # "" \/ mods = <<>> THEN c
    ELSE applyModsOpen(getDirSrv([c EXCEPT !.staged = @ \o mods], "OPEN"), mods, started,
                       onlycheck)

\* MyConfigObject.update, lines 678-689, for one action: skipped when the
\* observed and the wanted value are equal; the description (which may raise)
\* goes to the summary when messages are displayed.
Desc(c, vfrom, vto, descErr, msg, display) ==
    IF c.err # "" \/ vfrom = vto THEN c
    ELSE IF descErr # "" THEN Fail(c, descErr)
    ELSE IF msg # "" /\ display THEN Say(c, msg)
    ELSE c

\* MyConfigObject.update, lines 681-695: the UPDATE behaviour of an action is
\* performed when the values differ and the pass is not a dry run.
Runs(vfrom, vto, onlycheck) == vfrom # vto /\ ~onlycheck

(* ------------------------------------------------------------------ *)
(* The replica state machine (ConfigBackend)                           *)
(* ------------------------------------------------------------------ *)

AddChange(c, msg) == [c EXCEPT !.chg = Append(@, msg)]

\* Python's str() of a replica id (0 stands for None).
RidStr(rid) ==
    CASE rid = 0 -> "None"
      [] rid = 1 -> "1"
      [] rid = 2 -> "2"
      [] rid = 3 -> "3"
      [] rid = HubRid -> "65535"
      [] OTHER -> "n"

\* Replica.demote(role): the replica takes the role and the id of a read-only
\* replica.
Demote(c, role) ==
    Emit([c EXCEPT !.srv.role = role, !.srv.rid = HubRid], Op("demote", role, 0))

\* Replica.delete(): no replica entry is left.
DeleteReplica(c) ==
    Emit([c EXCEPT !.srv.role = "None", !.srv.rid = 0], Op("delete_replica", "", 0))

\* Replica.promote(role, rid=...): the replica takes the role, and the id given
\* (the id of a read-only replica when none is given).
Promote(c, role, rid) ==
    Emit([c EXCEPT !.srv.role = role, !.srv.rid = IF rid = 0 THEN HubRid ELSE rid],
         Op("promote", role, rid))

\* Replicas.create(properties): needs the suffix's mapping tree entry, which
\* goes with its backend; the entry carries the type and flags of the role
\* and the id of the properties.
CreateReplica(c, role, rid) ==
    IF ~c.srv.be THEN Fail(c, "ldap.NO_SUCH_OBJECT")
    ELSE Emit([c EXCEPT !.srv.role = role,
                        !.srv.rid = IF rid # 0 THEN rid
                                    ELSE IF role \in {"hub", "consumer"} THEN HubRid
                                    ELSE 0],
              Op("create_replica", role, rid))

\* ConfigBackend.replica_demote_or_delete.
replica_demote_or_delete(c, old_role, new_role, rid_changed, should_delete, onlycheck) ==
    IF c.err # "" \/ Weight(old_role) = 0 THEN c
    ELSE LET demote_role == IF rid_changed THEN "hub"
                            ELSE IF should_delete THEN "consumer"
                            ELSE new_role
             c0 == getDirSrv(c, "OPEN")
             c1 == IF old_role # demote_role
                   THEN AddChange(IF onlycheck THEN c0 ELSE Demote(c0, demote_role),
                                  "Demote replica for suffix dc=example,dc=com from "
                                    \o old_role \o " to " \o new_role)
                   ELSE c0
         IN  IF should_delete
             THEN AddChange(IF onlycheck THEN c1 ELSE DeleteReplica(c1),
                            "Delete replica for suffix dc=example,dc=com")
             ELSE c1

\* ConfigBackend.replica_create_or_promote: properties is the dset of
\* update_replica, of which the model carries the replica id.
replica_create_or_promote(c, new_role, rid, should_create, onlycheck) ==
    IF c.err # "" THEN c
    ELSE LET c0 == getDirSrv(c, "OPEN")
         IN  IF should_create
             THEN IF onlycheck THEN c0 ELSE CreateReplica(c0, new_role, rid)
             ELSE AddChange(IF onlycheck THEN c0 ELSE Promote(c0, new_role, rid),
                            "replica_create_or_promote: replicas.promote(" \o new_role
                              \o ", rid=" \o RidStr(rid) \o ")")

\* ConfigBackend.synchronize_properties(ReplicaOption.DSEDN, dchanged, onlycheck).
synchronize_properties(c, dchanged, rid, started, onlycheck) ==
    IF c.err # "" THEN c
    ELSE LET c1 == IF dchanged # {}
                   THEN AddChange(c, "Replica for suffix dc=example,dc=com properties are modified.")
                   ELSE c
             mods == IF "nsDS5ReplicaId" \in dchanged
                     THEN <<Mod(REPLICADN, "nsDS5ReplicaId", RidStr(rid))>>
                     ELSE <<>>
         IN  IF onlycheck THEN c1 ELSE applyMods(c1, mods, started, FALSE)

\* update_replica with its two steps exchanged: create or promote first,
\* demote or delete afterwards.
update_replica_promote_first(c, role, rid, started, onlycheck) ==
    IF c.err # "" THEN c
    ELSE LET vfrom == c.srv.role
             dchanged == IF RidStr(c.srv.rid) # RidStr(rid) THEN {"nsDS5ReplicaId"} ELSE {}
             rid_changed == "nsDS5ReplicaId" \in dchanged
             from_weight == Weight(vfrom)
             to_weight == Weight(role)
             c1 == IF rid_changed \/ from_weight < to_weight
                   THEN replica_create_or_promote(c, role, rid, from_weight = 0, onlycheck)
                   ELSE c
             c2 == IF rid_changed \/ from_weight > to_weight
                   THEN replica_demote_or_delete(c1, vfrom, role, rid_changed,
                                                 to_weight = 0, onlycheck)
                   ELSE c1
         IN  IF from_weight * to_weight # 0
             THEN synchronize_properties(c2, dchanged \ {"replicaid"}, rid, started, onlycheck)
             ELSE c2

\* update_replica that takes the replica id for unchanged: only the weights
\* decide, and a changed id is left to synchronize_properties.
update_replica_by_weight_only(c, role, rid, started, onlycheck) ==
    IF c.err # "" THEN c
    ELSE LET vfrom == c.srv.role
             dchanged == IF RidStr(c.srv.rid) # RidStr(rid) THEN {"nsDS5ReplicaId"} ELSE {}
             from_weight == Weight(vfrom)
             to_weight == Weight(role)
             c1 == IF from_weight > to_weight
                   THEN replica_demote_or_delete(c, vfrom, role, FALSE, to_weight = 0,
                                                 onlycheck)
                   ELSE c
             c2 == IF from_weight < to_weight
                   THEN replica_create_or_promote(c1, role, rid, from_weight = 0, onlycheck)
                   ELSE c1
         IN  IF from_weight * to_weight # 0
             THEN synchronize_properties(c2, dchanged, rid, started, onlycheck)
             ELSE c2

\* ConfigBackend.update_replica: the observed role and id are read from the
\* live replica entry; role and rid are the desired ones (rid 0: not set).
update_replica(c, role, rid, started, onlycheck) ==
    IF c.err # "" THEN c
    ELSE LET vfrom == c.srv.role
             dchanged == IF RidStr(c.srv.rid) # RidStr(rid) THEN {"nsDS5ReplicaId"} ELSE {}
             rid_changed == "nsDS5ReplicaId" \in dchanged
             from_weight == Weight(vfrom)
             to_weight == Weight(role)
             c1 == IF rid_changed \/ from_weight > to_weight
                   THEN replica_demote_or_delete(c, vfrom, role, rid_changed,
                                                 to_weight = 0, onlycheck)
                   ELSE c
             c2 == IF rid_changed \/ from_weight < to_weight
                   THEN replica_create_or_promote(c1, role, rid, from_weight = 0, onlycheck)
                   ELSE c1
         IN  IF from_weight * to_weight # 0
             THEN synchronize_properties(c2, dchanged \ {"replicaid"}, rid, started, onlycheck)
             ELSE c2

(* ------------------------------------------------------------------ *)
(* The entities' update handlers; f is the fact tree read before the   *)
(* pass, c.srv the live server                                          *)
(* ------------------------------------------------------------------ *)

\* Index.create under the backend's index container, Index.delete of the entry.
CreateIndex(c) ==
    IF ~c.srv.inst THEN Fail(c, "AttributeError: 'NoneType' object")
    ELSE IF ~c.srv.be THEN Fail(c, "ldap.NO_SUCH_OBJECT")
    ELSE Emit([c EXCEPT !.srv.idx = TRUE], Op("create_index", "idx1", 0))

DeleteIndex(c) ==
    IF ~c.srv.inst THEN Fail(c, "AttributeError: 'NoneType' object")
    ELSE IF ~c.srv.idx THEN Fail(c, "ldap.NO_SUCH_OBJECT")
    ELSE Emit([c EXCEPT !.srv.idx = FALSE], Op("delete_index", "idx1", 0))

\* ConfigIndex._stateAction, UPDATE (run: the behaviour is performed).
IndexStateUpdate(c, run, vfrom, vto) ==
    IF c.err # "" \/ ~run THEN c
    ELSE IF vto = "present" /\ vfrom = "absent" THEN CreateIndex(getDirSrv(c, "OPEN"))
    ELSE IF vfrom = "present" /\ vto = "absent" THEN DeleteIndex(getDirSrv(c, "OPEN"))
    ELSE c

\* ConfigIndex._stateAction, DESC.
IndexStateDesc(vto) ==
    IF vto = "present" THEN "Creating index idx1 on backend be1"
    ELSE "Deleting index idx1 on backend be1"

\* MyConfigObject.update for the index, when the tree lists it: state
\* (prio 2), then indextype and systemindex (prio 10), then applyMods.  The
\* facts of an index hold systemindex 'false' (it differs from the option's
\* default 'off'), the desired tree does not set it.
IndexUpdate(c, d, f, onlycheck) ==
    IF c.err # "" \/ ~d.idxDecl THEN c
    ELSE LET exists == f.be /\ f.idx
             vfrom == IF exists THEN "present" ELSE "absent"
             typeFrom == IF exists THEN "['eq']" ELSE "None"
             sysFrom == IF exists THEN "false" ELSE "None"
             c1 == IndexStateUpdate(Desc(c, vfrom, d.idxState, "",
                                         IndexStateDesc(d.idxState), c.mustCreate),
                                    Runs(vfrom, d.idxState, onlycheck), vfrom, d.idxState)
             c2 == Desc(c1, typeFrom, "['eq']", "",
                        "Set nsIndexType:['eq'] in " \o IDXDN, c.mustCreate)
             c3 == Desc(c2, sysFrom, "None", "",
                        "Set nsSystemIndex:None in " \o IDXDN, c.mustCreate)
             mods == IF onlycheck THEN <<>>
                     ELSE (IF typeFrom # "['eq']"
                           THEN <<Mod(IDXDN, "nsIndexType", "['eq']")>> ELSE <<>>)
                          \o (IF sysFrom # "None"
                              THEN <<Mod(IDXDN, "nsSystemIndex", "None")>> ELSE <<>>)
         IN  applyMods(c3, mods, d.started, onlycheck)

\* A Backend.delete() that leaves the indexes of the backend behind.
DeleteBackend_keeps_index(c) ==
    Emit([c EXCEPT !.srv.be = FALSE, !.srv.role = "None", !.srv.rid = 0],
         Op("delete_backend", "be1", 0))

\* Backend.delete(): the backend goes with its mapping tree entry, its
\* indexes and its replica.
DeleteBackend(c) ==
    Emit([c EXCEPT !.srv.be = FALSE, !.srv.idx = FALSE, !.srv.role = "None",
                   !.srv.rid = 0],
         Op("delete_backend", "be1", 0))

\* ConfigBackend._stateAction, UPDATE (run: the behaviour is performed):
\* 'present' builds the properties with Key.to_bytes, which Key does not
\* define (the suffix is always set, so the call is always reached); any
\* other state deletes the backend; update_replica follows with onlycheck
\* False.
BackendStateUpdate(c, run, d) ==
    IF c.err # "" \/ ~run THEN c
    ELSE IF d.beState = "present"
    THEN Fail(c, "AttributeError: type object 'Key' has no attribute 'to_bytes'")
    ELSE LET c1 == getDirSrv(c, "OPEN")
         IN  IF ~c1.srv.inst THEN Fail(c1, "AttributeError: 'NoneType' object")
             ELSE IF ~c1.srv.be THEN Fail(c1, "ldap.NO_SUCH_OBJECT")
             ELSE update_replica(DeleteBackend(c1), d.role, d.rid, d.started, FALSE)

\* ConfigBackend._stateAction, DESC.
BackendStateDesc(vto) ==
    IF vto = "present" THEN "Creating backend be1 on suffix dc=example,dc=com"
    ELSE "Deleting backend be1 on suffix dc=example,dc=com"

\* ConfigBackend._ReplicaRoleAction, DESC: the consistency check of the role
\* and the replica id ("" when it passes), and the message.
ReplicaRoleCheck(role, rid) ==
    IF role = "supplier" /\ rid = 0
    THEN "AttributeError: supplier should have a 'Replicaid'"
    ELSE IF role # "supplier" /\ rid # 0
    THEN "AttributeError: " \o role \o " should not have a 'Replicaid'"
    ELSE ""

ReplicaRoleDesc(role) ==
    IF role # "None"
    THEN "Configure replication as " \o role \o " for backend be1 on suffix dc=example,dc=com"
    ELSE "Unconfigure replication for backend be1 on suffix dc=example,dc=com"

\* ConfigBackend.update, when the tree lists the backend: MyConfigObject.update
\* for it - state (prio 2), suffix (5), ReplicaRole (9), readonly (10),
\* applyMods, the indexes - then getDirSrv(); update_replman returns at once
\* (the tree sets no replicabinddn) and update_agmts finds no ds389_agmts.
BackendUpdate(c, d, f, onlycheck) ==
    IF c.err # "" \/ ~d.beDecl THEN c
    ELSE LET exists == f.be
             vfrom == IF exists THEN "present" ELSE "absent"
             suffixFrom == IF exists THEN "dc=example,dc=com" ELSE "None"
             roleFrom == IF exists THEN f.role ELSE "None"
             roFrom == IF exists THEN "off" ELSE "None"
             c1 == BackendStateUpdate(Desc(c, vfrom, d.beState, "",
                                           BackendStateDesc(d.beState), c.mustCreate),
                                      Runs(vfrom, d.beState, onlycheck), d)
             c2 == Desc(c1, suffixFrom, "dc=example,dc=com", "",
                        "Set nsslapd-suffix:dc=example,dc=com in " \o BEDN, c.mustCreate)
             c3 == Desc(c2, roleFrom, d.role, ReplicaRoleCheck(d.role, d.rid),
                        ReplicaRoleDesc(d.role), c.mustCreate)
             c4 == Desc(c3, roFrom, "None", "",
                        "Set nsslapd-readonly:None in " \o BEDN, c.mustCreate)
             mods == IF onlycheck THEN <<>>
                     ELSE (IF suffixFrom # "dc=example,dc=com"
                           THEN <<Mod(BEDN, "nsslapd-suffix", "dc=example,dc=com")>>
                           ELSE <<>>)
                          \o (IF roFrom # "None"
                              THEN <<Mod(BEDN, "nsslapd-readonly", "None")>> ELSE <<>>)
             c5 == applyMods(c4, mods, d.started, onlycheck)
         IN  getDirSrv(IndexUpdate(c5, d, f, onlycheck), "OPEN")

\* isTrue(val): "val is True or val.lower() in ('true', 'started')"; a value
\* is written with its Python type, "bool:" or "str:".
isTrue(val) == val \in {"bool:True", "str:True", "str:true", "str:started"}

\* isTrue(val) raises for the bool False, which has no lower().
isTrueRaises(val) == val = "bool:False"

\* Python's str() of a value of the started option.
StartedStr(val) ==
    CASE val = "bool:True"  -> "True"
      [] val = "bool:False" -> "False"
      [] OTHER              -> "stopped"

\* ConfigInstance._startedAction, DESC (None is "").
StartedDesc(c, vto) ==
    IF isTrue("str:" \o vto)
    THEN IF c.initial_state # "started" THEN "Starting instance slapd-i1" ELSE ""
    ELSE IF c.initial_state # "stopped" THEN "Stopping instance slapd-i1" ELSE ""

\* MyConfigObject.update for the started option (prio 99): the facts' started
\* is always True; the UPDATE behaviour only records the value.
StartedAction(c, d) ==
    Desc(c, "True", StartedStr(d.started), "", StartedDesc(c, StartedStr(d.started)),
         c.mustCreate)

\* ConfigInstance._stateAction, UPDATE (run: the behaviour is performed):
\* creates the instance when it must be created and resets the DirSrv cache.
InstanceStateUpdate(c, run, d) ==
    IF c.err # "" \/ ~run THEN c
    ELSE IF c.mustCreate THEN [CreateInstance(c, d.port) EXCEPT !.cache = {}]
    ELSE c

\* MyConfigObject.update for the instance: state (prio 2), port (10), started
\* (99), applyMods, then the backends.
InstanceActions(c, d, f, onlycheck) ==
    LET vfrom == IF f.inst THEN "present" ELSE "absent"
        portFrom == IF f.inst THEN f.port ELSE "None"
        c1 == InstanceStateUpdate(Desc(c, vfrom, d.instState, "",
                                       IF c.mustCreate THEN "Creating instance slapd-i1"
                                       ELSE "",
                                       c.mustCreate),
                                  Runs(vfrom, d.instState, onlycheck), d)
        c2 == Desc(c1, portFrom, d.port, "",
                   "Set nsslapd-port:" \o d.port \o " in cn=config", c.mustCreate)
        mods == IF onlycheck \/ portFrom = d.port THEN <<>>
                ELSE <<Mod("cn=config", "nsslapd-port", d.port)>>
        c4 == applyMods(StartedAction(c2, d), mods, d.started, onlycheck)
    IN  BackendUpdate(c4, d, f, onlycheck)

\* ConfigInstance.update, lines 1842-1845: the server is started or stopped
\* through the DirSrv that getDirSrv returned, in a dry run too.
StartOrStop(c, d) ==
    IF c.err # "" THEN c
    ELSE IF ~c.srv.inst
    THEN Fail(c, "AttributeError: 'NoneType' object has no attribute 'start'")
    ELSE IF isTrue(d.started) THEN Start(c)
    ELSE Stop(c)

\* ConfigInstance.update, lines 1828-1829: the instance is popped from the
\* instances of the root's facts, and its backends and indexes go with it.
PopInstanceFact(c) ==
    IF c.err # "" THEN c
    ELSE [c EXCEPT !.facts = [inst |-> FALSE, be |-> FALSE, idx |-> FALSE]]

\* ConfigInstance.update, when the tree lists the instance.
InstanceUpdate(c, d, f, onlycheck) ==
    IF c.err # "" \/ ~d.instDecl THEN c
    ELSE LET curstate == InstanceStatus(c.srv)
             c0 == IF c.srv.inst THEN getDirSrv(c, "LDAPI") ELSE c
         IN  IF d.instState = "absent"
             THEN IF curstate # "absent"
                  THEN LET c1 == Say(c0, "Removing instance i1")
                       IN  IF onlycheck THEN c1
                           ELSE PopInstanceFact(DeleteInstance(getDirSrv(c1, "LDAPI")))
                  ELSE c0
             ELSE IF isTrueRaises(d.started)
             THEN Fail(c0, "AttributeError: 'bool' object has no attribute 'lower'")
             ELSE LET c1 == [c0 EXCEPT !.mustCreate = (curstate = "absent")]
                  IN  StartOrStop(getDirSrv(InstanceActions(c1, d, f, onlycheck), "LDAPI"),
                                  d)

\* ConfigRoot._get_instances_list: the names to add and to remove, computed
\* from the instances that exist when it is called.
instances_to_add(s, d) ==
    IF d.rootState = "absent" THEN <<>>
    ELSE IF d.instDecl /\ ~s.inst THEN <<"i1">> ELSE <<>>

instances_to_remove(s, d) ==
    LET existing == IF s.inst THEN <<"i1">> ELSE <<>>
        unlisted == IF s.inst /\ ~d.instDecl THEN <<"i1">> ELSE <<>>
    IN  IF d.rootState = "absent" THEN unlisted \o existing
        ELSE IF d.rootState = "updated" THEN unlisted
        ELSE <<>>

\* Python's str() of a list of messages, one per name.
RECURSIVE ListStr(_, _)
ListStr(prefix, names) ==
    IF names = <<>> THEN ""
    ELSE "'" \o prefix \o Head(names) \o "'"
         \o (IF Len(names) > 1 THEN ", " ELSE "") \o ListStr(prefix, Tail(names))

\* ConfigRoot._stateAction, DESC: str(msg), never an empty string.
RootStateDesc(s, d) ==
    LET adds == ListStr("Creating instance: ", instances_to_add(s, d))
        dels == ListStr("Deleting instance: ", instances_to_remove(s, d))
    IN  "[" \o adds \o (IF adds # "" /\ dels # "" THEN ", " ELSE "") \o dels \o "]"

\* ConfigRoot._stateAction, UPDATE: every instance to remove is deleted.
RECURSIVE DeleteInstances(_, _)
DeleteInstances(c, names) ==
    IF names = <<>> THEN c ELSE DeleteInstances(DeleteInstance(c), Tail(names))

RootStateUpdate(c, run, d) ==
    IF c.err # "" \/ ~run THEN c
    ELSE DeleteInstances(c, instances_to_remove(c.srv, d))

\* ConfigRoot.update, line 2027: summary.extend(self._changes).
ExtendSummary(c) == IF c.err = "" THEN [c EXCEPT !.sum = @ \o c.chg] ELSE c

\* ConfigRoot.update: MyConfigObject.update for the root (the facts' state is
\* always 'present'; messages of the root are always displayed), the
\* instances, and then the changes recorded by add_change.
RootUpdate(c, d, f, onlycheck) ==
    ExtendSummary(
        InstanceUpdate(
            RootStateUpdate(Desc(c, "present", d.rootState, "", RootStateDesc(c.srv, d), TRUE),
                            Runs("present", d.rootState, onlycheck), d),
            d, f, onlycheck))

\* manage_instances: the facts are read, then the wanted tree is updated
\* against them.
Pass(s, d, onlycheck) == RootUpdate(NewCtx(s), d, s, onlycheck)

(* ------------------------------------------------------------------ *)
(* The passes                                                          *)
(* ------------------------------------------------------------------ *)

\* What is kept of the last pass: its kind, whether it was a dry run, its
\* error, summary and operations, the server before it, the summary and error
\* the other mode gives from the same server, and whether the pass before it
\* was a non-dry-run pass that completed without error.
\* run_module and manage_instances: result['message'] is '' (here the empty
\* list) until wanted_state.update has returned, and the summary afterwards;
\* fail_json and exit_json hand the result to the caller.
ResultMessage(c) == IF c.err # "" THEN <<>> ELSE c.sum

NoPass ==
    [kind |-> "none", dry |-> FALSE, err |-> "", sum |-> <<>>, ops |-> <<>>,
     message |-> <<>>, facts |-> FactTree(NoServer), staged |-> <<>>, pre |-> NoServer, twinSum |-> <<>>, twinErr |-> "", afterOk |-> FALSE]

Record(kind, c, twin, onlycheck) ==
    [kind |-> kind, dry |-> onlycheck, err |-> c.err, sum |-> c.sum, ops |-> c.ops,
     message |-> ResultMessage(c), facts |-> c.facts, staged |-> c.staged, pre |-> srv,
     twinSum |-> twin.sum, twinErr |-> twin.err,
     afterOk |-> (last.kind = kind /\ ~last.dry /\ last.err = "")]

\* run_module without check mode: the pass acts on the server.
UpdateReal ==
    LET c == Pass(srv, desired, FALSE)
        twin == Pass(srv, desired, TRUE)
    IN  /\ srv' = c.srv
        /\ last' = Record("update", c, twin, FALSE)
        /\ UNCHANGED desired

\* run_module in check mode (onlycheck).
UpdateCheck ==
    LET c == Pass(srv, desired, TRUE)
        twin == Pass(srv, desired, FALSE)
    IN  /\ srv' = c.srv
        /\ last' = Record("update", c, twin, TRUE)
        /\ UNCHANGED desired

\* One run of update_replica against an existing backend, as a pass of its own:
\* the summary is what add_change recorded.
ReplicaPass(s, d, onlycheck) ==
    LET c == update_replica(NewCtx(s), d.role, d.rid, d.started, onlycheck)
    IN  [c EXCEPT !.sum = c.chg]

ReplicaReal ==
    LET c == ReplicaPass(srv, desired, FALSE)
        twin == ReplicaPass(srv, desired, TRUE)
    IN  /\ srv' = c.srv
        /\ last' = Record("replica", c, twin, FALSE)
        /\ UNCHANGED desired

ReplicaCheck ==
    LET c == ReplicaPass(srv, desired, TRUE)
        twin == ReplicaPass(srv, desired, FALSE)
    IN  /\ srv' = c.srv
        /\ last' = Record("replica", c, twin, TRUE)
        /\ UNCHANGED desired

Init ==
    /\ srv \in {s \in ServerStates : s.port = DefaultPort}
    /\ desired \in DesiredTrees
    /\ last = NoPass

Next == UpdateReal \/ UpdateCheck

Spec == Init /\ [][Next]_vars

\* update_replica on its own: a running or stopped instance whose backend
\* exists, with any replica, and a tree that declares the backend.
InitReplica ==
    /\ srv \in {s \in ServerStates : s.inst /\ s.be /\ s.port = DefaultPort}
    /\ desired \in {d \in DesiredTrees :
                        /\ d.rootState = "present" /\ d.instDecl
                        /\ d.instState = "present" /\ d.started = "bool:True"
                        /\ d.port = "None" /\ d.beDecl /\ d.beState = "present"
                        /\ ~d.idxDecl}
    /\ last = NoPass

NextReplica == ReplicaReal \/ ReplicaCheck

SpecReplica == InitReplica /\ [][NextReplica]_vars

(* ------------------------------------------------------------------ *)
(* The desired-state input and its loading                             *)
(* ------------------------------------------------------------------ *)

\* The value of a state key in the input: the key is left out ("omitted"), or
\* it holds a declared choice, a choice in another case, or something else.
RawStates == {"omitted", "present", "absent", "Present", "bogus"}

\* Names of fields that no Options or Children schema declares.
ExtraNames == {"color", "tag", "_color"}

NoExtra == [at |-> "none", name |-> "color", null |-> FALSE]

\* The undeclared field an input carries, if any: the level that carries it,
\* its name and whether its value is null.
Extras ==
    {NoExtra}
        \cup {[at |-> l, name |-> n, null |-> z] :
                l \in {"root", "instance", "backend", "index"}, n \in ExtraNames,
                z \in BOOLEAN}

\* The inputs: a root with at most one instance i1, holding at most one
\* backend be1 (with or without its suffix), holding at most one index idx1.
RawTrees ==
    {[rootState |-> rs, instDecl |-> i[1], instState |-> i[2], beDecl |-> b[1],
      beState |-> b[2], suffix |-> b[3], idxDecl |-> x[1], idxState |-> x[2],
      extra |-> e] :
        rs \in RawStates,
        i \in {<<FALSE, "omitted">>} \cup ({TRUE} \X RawStates),
        b \in {<<FALSE, "omitted", FALSE>>} \cup ({TRUE} \X RawStates \X BOOLEAN),
        x \in {<<FALSE, "omitted">>} \cup ({TRUE} \X RawStates),
        e \in Extras}

\* An input is a tree: children are listed under a listed parent only, and
\* the undeclared field sits on a listed entity.
RawWellFormed(r) ==
    /\ (r.beDecl => r.instDecl)
    /\ (r.idxDecl => r.beDecl)
    /\ (r.extra.at = "instance" => r.instDecl)
    /\ (r.extra.at = "backend" => r.beDecl)
    /\ (r.extra.at = "index" => r.idxDecl)

\* str.lower() on the values a state key takes here.
Lower(v) == IF v = "Present" THEN "present" ELSE v

\* conv_val: the choices of the argument spec are extended with every
\* upper/lower case combination, so a value is allowed when its lower case
\* form is a declared choice.
InChoices(v) == Lower(v) \in States

\* The state values of the entities an input lists.
ListedStates(r) ==
    {r.rootState}
        \cup (IF r.instDecl THEN {r.instState} ELSE {})
        \cup (IF r.beDecl THEN {r.beState} ELSE {})
        \cup (IF r.idxDecl THEN {r.idxState} ELSE {})

\* AnsibleModule(argument_spec=...) in run_module: the argument spec built
\* from CONTENT_OPTIONS rejects a parameter it does not declare, a missing
\* required one (the suffix of a backend) and a value outside the choices.
AnsibleError(r) ==
    IF r.extra.at # "none" THEN "Unsupported parameters"
    ELSE IF r.beDecl /\ ~r.suffix THEN "missing required arguments: suffix"
    ELSE IF \E v \in ListedStates(r) : v # "omitted" /\ ~InChoices(v)
    THEN "value of state must be one of: present, updated, absent"
    ELSE ""

\* The 'default': 'present' of the state option at every level of
\* CONTENT_OPTIONS.
AnsibleDefault(v) == IF v = "omitted" THEN "present" ELSE v

\* module.params['ds389'] for an input the argument spec accepts.
AnsibleParams(r) ==
    [r EXCEPT !.rootState = AnsibleDefault(@), !.instState = AnsibleDefault(@),
              !.beState = AnsibleDefault(@), !.idxState = AnsibleDefault(@)]

\* MyConfigObject.set, lines 419-422 and 434-435: a key named tag, a key that
\* starts with an underscore and a key whose value is None are skipped.
StartsWithUnderscore(name) == name \in {"_color"}

\* A set that skips only the keys named tag or starting with an underscore.
SetSkips_keeps_null(e) == e.name = "tag" \/ StartsWithUnderscore(e.name)

SetSkips(e) == e.name = "tag" \/ StartsWithUnderscore(e.name) \/ e.null

\* MyConfigObject.validate after set: a key that was set on the object and
\* that is neither a parameter, an option nor a child is an error.
validate(r) ==
    IF r.extra.at # "none" /\ ~SetSkips(r.extra)
    THEN "ValueError: Unexpected parameters"
    ELSE ""

\* The state an entity has when its record holds no state key: what __init__
\* assigned (MyConfigObject, ConfigIndex, ConfigAgmt: 'present';
\* ConfigInstance: 'absent').
InitState(level) == IF level = "instance" THEN "absent" ELSE "present"

\* MyConfigObject.set for the state key: the value given, or what __init__ left.
SetState(level, v) == IF v = "omitted" THEN InitState(level) ELSE v

\* ConfigRoot.from_content / from_path / from_stdin: the tree that set builds.
\* The input sets neither started, port nor a replica role; nothing checks
\* that a backend holds a suffix or that a state is one of the choices.
set(r) ==
    [rootState |-> SetState("root", r.rootState), instDecl |-> r.instDecl,
     instState |-> IF r.instDecl THEN SetState("instance", r.instState)
                   ELSE NoInstance.instState,
     started |-> NoInstance.started, port |-> NoInstance.port,
     beDecl |-> r.beDecl,
     beState |-> IF r.beDecl THEN SetState("backend", r.beState)
                 ELSE NoBackend.beState,
     role |-> NoBackend.role, rid |-> NoBackend.rid, idxDecl |-> r.idxDecl,
     idxState |-> IF r.idxDecl THEN SetState("index", r.idxState)
                  ELSE NoBackend.idxState]

\* manage_instances(content, result, checkmode): an exception of from_content
\* becomes an AnsibleError; otherwise the facts are read and the tree updated.
manage_instances(s, content, checkmode) ==
    IF validate(content) # ""
    THEN Fail(NewCtx(s), "AnsibleError: Failed to validate the parameters.")
    ELSE Pass(s, set(content), checkmode)

\* run_module: AnsibleModule checks the arguments against the argument spec and
\* fills the defaults, then manage_instances runs on module.params['ds389'].
run_module(s, r, checkmode) ==
    IF AnsibleError(r) # "" THEN Fail(NewCtx(s), AnsibleError(r))
    ELSE manage_instances(s, AnsibleParams(r), checkmode)

\* What is kept of a run of the module or of a load: as for a pass, and the
\* tree that was loaded.
Loaded(kind, c, tree, onlycheck) ==
    [kind |-> kind, dry |-> onlycheck, err |-> c.err, sum |-> c.sum, ops |-> c.ops,
     message |-> ResultMessage(c), pre |-> srv, tree |-> tree]

\* ConfigRoot.from_path or from_stdin on the input: the tree is built and
\* validated, the server is not touched.
FromPath ==
    /\ last' = Loaded("load", Fail(NewCtx(srv), validate(desired)), set(desired), FALSE)
    /\ UNCHANGED <<srv, desired>>

\* The module run on the input, without check mode.
RunModuleReal ==
    LET c == run_module(srv, desired, FALSE)
    IN  /\ srv' = c.srv
        /\ last' = Loaded("module", c, set(AnsibleParams(desired)), FALSE)
        /\ UNCHANGED desired

\* The module run on the input in check mode.
RunModuleCheck ==
    LET c == run_module(srv, desired, TRUE)
    IN  /\ srv' = c.srv
        /\ last' = Loaded("module", c, set(AnsibleParams(desired)), TRUE)
        /\ UNCHANGED desired

\* A host without instance, or with a running instance that holds be1 and idx1.
InitLoad ==
    /\ srv \in {NoServer,
                [NoServer EXCEPT !.inst = TRUE, !.run = TRUE, !.be = TRUE,
                                 !.idx = TRUE]}
    /\ desired \in {r \in RawTrees : RawWellFormed(r)}
    /\ last = NoPass

NextLoad == FromPath \/ RunModuleReal \/ RunModuleCheck

SpecLoad == InitLoad /\ [][NextLoad]_vars

(* ------------------------------------------------------------------ *)
(* The dseMods of an instance: entries added, deleted and changed      *)
(* ------------------------------------------------------------------ *)

\* The values the attribute of the entry takes.
ModValues == {"x", "y"}

\* DiffResult.ACTIONS that the dseMods of the model use.
ModActions == {"addEntry", "deleteEntry", "replaceValue"}

\* An instance with or without the entry; offline: the server answers a
\* modify of the attribute with ldap.UNWILLING_TO_PERFORM while it runs.
ModServers ==
    {[inst |-> TRUE, run |-> r, port |-> DefaultPort, be |-> FALSE, role |-> "None",
      rid |-> 0, idx |-> FALSE, entry |-> e, val |-> v, offline |-> o] :
        r \in BOOLEAN, e \in BOOLEAN, v \in ModValues, o \in BOOLEAN}

\* ConfigInstance._filter_ops_add_entry_cb: for an entry that exists, a
\* replace for every attribute that is not up to date; otherwise the add.
filter_ops_add_entry_cb(s, m) ==
    IF EntryExists(s, m.dn)
    THEN filter_ops_replace_value_cb(s, Mod(m.dn, m.attr, m.val))
    ELSE <<Op("add_entry", m.val, 0)>>

\* ConfigInstance._filter_ops_delete_entry_cb.
filter_ops_delete_entry_cb(s, m) ==
    IF EntryExists(s, m.dn) THEN <<Op("delete_entry", "", 0)>> ELSE <<>>

\* ConfigInstance.filterOps for one modifier of the dseMods.
filterDseOps(s, m) ==
    CASE m.action = "addEntry"    -> filter_ops_add_entry_cb(s, m)
      [] m.action = "deleteEntry" -> filter_ops_delete_entry_cb(s, m)
      [] OTHER -> filter_ops_replace_value_cb(s, Mod(m.dn, m.attr, m.val))

\* LdapOp.apply_list_op(ops, dirSrv): the callbacks append the tuple (op,),
\* and a tuple has no apply.
apply_list_op(c, ops) ==
    IF c.err # "" \/ ops = <<>> THEN c
    ELSE Fail(c, "AttributeError: 'tuple' object has no attribute 'apply'")

\* ConfigInstance.applyOpsOffLine: the server is stopped, then the method
\* raises.
applyOpsOffLine(c) ==
    Fail(Stop([c EXCEPT !.err = ""]), "NotImplementedError: Code not yet implemented.")

\* str(op) of a kept operation, a tuple that holds the LdapOp.
OpStr(o) ==
    IF o.op = "add_entry"
    THEN "((AddEntry dn=" \o MODDN \o " attrs={'" \o MODATTR \o "': ['" \o o.arg \o "']}),)"
    ELSE "((DeleteEntry dn=" \o MODDN \o " attrs={}),)"

\* ConfigInstance.applyMods, lines 1958-1959: every kept operation goes to
\* the summary.
RECURSIVE SayOps(_, _)
SayOps(c, ops) ==
    IF ops = <<>> THEN c ELSE SayOps(Say(c, OpStr(Head(ops))), Tail(ops))

\* ConfigInstance.applyMods(self.dseMods, summary, onlycheck) for an instance
\* that exists: a kept replace is built with LdapOp.REPLACE, which LdapOp
\* does not define.
applyDseMods(c, m, started, onlycheck) ==
    LET c0 == getDirSrv(c, "OPEN")
        ops == filterDseOps(c0.srv, m)
    IN  IF \E i \in 1..Len(ops) : ops[i].op = "modify"
        THEN Fail(c0, "AttributeError: LdapOp has no attribute 'REPLACE'")
        ELSE IF onlycheck THEN SayOps(c0, ops)
        ELSE LET c1 == apply_list_op(c0, ops)
                 c2 == IF c1.err = "ldap.UNWILLING_TO_PERFORM" THEN applyOpsOffLine(c1)
                       ELSE c1
             IN  IF c2.err # "" THEN c2
                 ELSE SayOps(IF started = "bool:False" THEN Stop(c2) ELSE Start(c2), ops)

\* What is kept of a run of applyMods.
Applied(c, onlycheck) ==
    [kind |-> "mods", dry |-> onlycheck, err |-> c.err, sum |-> c.sum, ops |-> c.ops,
     message |-> ResultMessage(c), pre |-> srv]

\* applyMods of the dseMods against the live instance.
ApplyModsReal ==
    LET c == applyDseMods(NewCtx(srv), desired, desired.started, FALSE)
    IN  /\ srv' = c.srv
        /\ last' = Applied(c, FALSE)
        /\ UNCHANGED desired

\* The same in check mode.
ApplyModsCheck ==
    LET c == applyDseMods(NewCtx(srv), desired, desired.started, TRUE)
    IN  /\ srv' = c.srv
        /\ last' = Applied(c, TRUE)
        /\ UNCHANGED desired

InitMods ==
    /\ srv \in ModServers
    /\ desired \in [action : ModActions, dn : {MODDN}, attr : {MODATTR}, val : ModValues,
                    started : {"bool:True", "bool:False"}]
    /\ last = [kind |-> "none", dry |-> FALSE, err |-> "", sum |-> <<>>, ops |-> <<>>,
               message |-> <<>>, pre |-> NoServer]

NextMods == ApplyModsReal \/ ApplyModsCheck

SpecMods == InitMods /\ [][NextMods]_vars

(* ------------------------------------------------------------------ *)
(* The result of the module and the hidden options                     *)
(* ------------------------------------------------------------------ *)

\* HIDDEN_ARGS of ds389_module.py, as written there.
HIDDEN_ARGS == {"userpassword", "rootpw", "replicationmanagerpassword"}

\* The options declared with hidden=True: rootpw of the instance and
\* ReplicaCredentials of the backend and of the agreement, under the names
\* of the argument spec.
HiddenOptions == {"rootpw", "replicacredentials"}

\* The values of the hidden options in the input ("None": not set).
Secrets == {"None", "pw1", "pw2"}

\* module.params['ds389'], flattened: one plain option and the hidden ones.
ModuleParams == [port : {"None", "1389"}, rootpw : Secrets, replicacredentials : Secrets]

\* str.lower() of a key of the parameters, which are all in lower case.
KeyLower(key) == key

\* safe_dup_keyval(key, val).
safe_dup_keyval(key, val) ==
    IF KeyLower(key) \in HIDDEN_ARGS THEN "******" ELSE val

\* safe_dup(src) for a dict.
safe_dup(src) == [key \in DOMAIN src |-> safe_dup_keyval(key, src[key])]

\* Option._action, DESC.
ActionDesc(dsename, vto, hidden, dsedn) ==
    IF hidden THEN "Set " \o dsename \o " in " \o dsedn
    ELSE "Set " \o dsename \o ":" \o vto \o " in " \o dsedn

\* The descriptions that MyConfigObject.update puts in the summary for the
\* port, the root password and the replica credentials of an instance
\* created in the pass; for an instance that exists no description is
\* displayed.
HiddenSummary(p, exists) ==
    IF exists THEN <<>>
    ELSE <<"Creating instance slapd-i1">>
         \o (IF p.port # "None"
             THEN <<ActionDesc("nsslapd-port", p.port, FALSE, "cn=config")>> ELSE <<>>)
         \o (IF p.rootpw # "None"
             THEN <<ActionDesc("nsslapd-rootpw", p.rootpw, TRUE, "cn=config")>> ELSE <<>>)
         \o (IF p.replicacredentials # "None"
             THEN <<ActionDesc("nsDS5ReplicaCredentials", p.replicacredentials, TRUE,
                               "cn=replica,cn=dc\\=x,cn=mapping tree,cn=config")>>
             ELSE <<>>)

\* run_module: the result handed to exit_json.  The source holds both sides
\* of an unresolved merge; head tells whether the side that sets
\* result['raw_invocation'] = module.params is the one in effect.
ModuleResult(p, exists, head) ==
    [kind |-> "result", message |-> HiddenSummary(p, exists),
     invocation |-> safe_dup(p),
     raw_invocation |-> IF head THEN p ELSE [key \in DOMAIN p |-> "None"]]

\* One run of the module on the parameters.
RunForResult ==
    \E head \in BOOLEAN :
        /\ last' = ModuleResult(desired, srv.inst, head)
        /\ srv' = [srv EXCEPT !.inst = TRUE, !.run = TRUE]
        /\ UNCHANGED desired

InitResult ==
    /\ srv \in {NoServer, [NoServer EXCEPT !.inst = TRUE, !.run = TRUE]}
    /\ desired \in ModuleParams
    /\ last = [kind |-> "none", message |-> <<>>,
               invocation |-> [key \in {"port", "rootpw", "replicacredentials"} |-> "None"],
               raw_invocation |-> [key \in {"port", "rootpw", "replicacredentials"} |-> "None"]]

NextResult == RunForResult

SpecResult == InitResult /\ [][NextResult]_vars

(* ------------------------------------------------------------------ *)
(* Keys, entries, snapshots and their diff (ds389_util.py)             *)
(* ------------------------------------------------------------------ *)

\* The longest value list an attribute of a snapshot holds.
MaxVals == 2

\* Key.__init__: the normalized form of a string.  The string is lower-cased
\* and, when it parses as a DN, rebuilt by dn2str(str2dn(...)), which drops the
\* blanks around the separators; any other string is only lower-cased.
KeyNormalized(s) ==
    CASE s \in {"cn=config", "CN=Config", "cn = config"} -> "cn=config"
      [] s \in {"cn=a,cn=config", "CN=A, CN=Config"}     -> "cn=a,cn=config"
      [] s \in {"cn", "CN"}                              -> "cn"
      [] s \in {"x", "X"}                                -> "x"
      [] s \in {"nsstate", "nsState"}                    -> "nsstate"
      [] OTHER                                           -> s

\* A Python string that is used as a dict key or compared: a Key (isKey) or a
\* plain str.
PyStr(s, isKey) == [s |-> s, isKey |-> isKey]

\* Key.from_val(val): a plain str becomes a Key, a Key is returned as it is.
from_val(o) == PyStr(o.s, TRUE)

\* hash(): Key.__hash__ hashes the normalized form, a plain str hashes itself.
PyHash(o) == IF o.isKey THEN KeyNormalized(o.s) ELSE o.s

\* Key.__eq__(self, other): the normalized forms are equal.
KeyEq(k, o) == KeyNormalized(k.s) = KeyNormalized(from_val(o).s)

\* dict lookup in a dict whose keys are Keys (given by their strings): the
\* stored keys that have the hash of the object looked up and are equal to it.
DictFind(keys, o) ==
    {k \in keys : PyHash(PyStr(k, TRUE)) = PyHash(o) /\ KeyEq(PyStr(k, TRUE), o)}

\* The DNs and the attributes of the snapshots, in the order of the file.
DiffDNs == <<"cn=config", "cn=a,cn=config">>

DiffAttrs == <<"cn", "p">>

DiffValues == {"x", "X", "y"}

\* The normalized values of a value list, in order.
NormSeq(vals) == [i \in 1..Len(vals) |-> KeyNormalized(vals[i])]

NormSet(vals) == {KeyNormalized(vals[i]) : i \in 1..Len(vals)}

\* LdapOp.add_value: a value list holds no two values that are equal as Keys.
ValueLists ==
    {vals \in UNION {[1..n -> DiffValues] : n \in 0..MaxVals} :
        Cardinality(NormSet(vals)) = Len(vals)}

\* No entry (None); an entry that exists holds at least one attribute, and an
\* attribute that an entry does not hold has the empty value list.
NoEntry == [a \in {"cn", "p"} |-> <<>>]

\* The entries of a snapshot: cn holds any value list, p at most one value.
Entries ==
    {[cn |-> c, p |-> q] : c \in ValueLists, q \in {<<>>, <<"x">>, <<"y">>}}

\* DSE.getEntryDict(): the entry of each DN, NoEntry where the file has none.
Snapshots ==
    {[dn \in {DiffDNs[1], DiffDNs[2]} |->
        IF dn = DiffDNs[1] THEN e ELSE IF second THEN [NoEntry EXCEPT !.cn = <<"x">>]
                                       ELSE NoEntry] :
        e \in Entries, second \in BOOLEAN}

\* Entry.hasValue(attr, val) with the attribute given as a Key of the entry.
KeyHasValue(e, attr, val) ==
    \E i \in 1..Len(e[attr]) : KeyNormalized(e[attr][i]) = KeyNormalized(val)

\* Entry.hasValue(attr, val): True, False, or KeyError when the entry holds
\* the attribute but the dict lookup by the object given does not find it.
hasValue(e, attrKeys, attr, val) ==
    IF DictFind(attrKeys, from_val(attr)) = {} THEN "False"
    ELSE IF DictFind(attrKeys, attr) = {} THEN "KeyError"
    ELSE LET k == CHOOSE k \in DictFind(attrKeys, attr) : TRUE
         IN  IF KeyHasValue(e, k, val.s) THEN "True" ELSE "False"

\* DSE.getEntry(dn): the DN of the index that the lookup finds, "None" if none.
getEntry(dnKeys, dn) ==
    IF DictFind(dnKeys, from_val(dn)) = {} THEN "None"
    ELSE CHOOSE k \in DictFind(dnKeys, from_val(dn)) : TRUE

\* DiffResult.addAction(action, dn, attr, val): one recorded modifier.
addAction(action, dn, attr, val) ==
    [action |-> action, dn |-> dn, attr |-> attr, val |-> val]

\* str() of a Python list of one value.
PyListRepr(vals) == "['" \o vals[1] \o "']"

\* A diffAttr that records a replaceValue for every attribute with one value on
\* each side, without comparing the two lists first.
diffAttr_always_replaces(dn, attr, e1, e2) ==
    IF Len(e1[attr]) = 1 /\ Len(e2[attr]) = 1
    THEN <<addAction("replaceValue", dn, attr, PyListRepr(e1[attr]))>>
    ELSE <<>>

\* A diffAttr without the case of one value on each side: the value of e1 is
\* recorded as addValue and that of e2 as deleteValue.
diffAttr_without_replace(dn, attr, e1, e2) ==
    LET a1 == e1[attr]
        a2 == e2[attr]
        NotInE2(v) == ~KeyHasValue(e2, attr, v)
        NotInE1(v) == ~KeyHasValue(e1, attr, v)
        adds == SelectSeq(a1, NotInE2)
        dels == SelectSeq(a2, NotInE1)
    IN  IF NormSeq(a1) = NormSeq(a2) THEN <<>>
        ELSE IF a1 = <<>> THEN <<addAction("deleteValue", dn, attr, "None")>>
        ELSE IF a2 = <<>>
        THEN [i \in 1..Len(a1) |-> addAction("addValue", dn, attr, a1[i])]
        ELSE [i \in 1..Len(adds) |-> addAction("addValue", dn, attr, adds[i])]
             \o [i \in 1..Len(dels) |-> addAction("deleteValue", dn, attr, dels[i])]

\* DiffResult.diffAttr(attr, e1, e2); e1 is NoEntry when the caller passes None.
\* The value recorded for replaceValue is the list a1 itself.
diffAttr(dn, attr, e1, e2) ==
    LET a1 == e1[attr]
        a2 == e2[attr]
        NotInE2(v) == ~KeyHasValue(e2, attr, v)
        NotInE1(v) == ~KeyHasValue(e1, attr, v)
        adds == SelectSeq(a1, NotInE2)
        dels == SelectSeq(a2, NotInE1)
    IN  IF NormSeq(a1) = NormSeq(a2) THEN <<>>
        ELSE IF a1 = <<>> THEN <<addAction("deleteValue", dn, attr, "None")>>
        ELSE IF a2 = <<>>
        THEN [i \in 1..Len(a1) |-> addAction("addValue", dn, attr, a1[i])]
        ELSE IF Len(a1) = 1 /\ Len(a2) = 1
        THEN <<addAction("replaceValue", dn, attr, PyListRepr(a1))>>
        ELSE [i \in 1..Len(adds) |-> addAction("addValue", dn, attr, adds[i])]
             \o [i \in 1..Len(dels) |-> addAction("deleteValue", dn, attr, dels[i])]

\* DiffResult.diffEntry(e1, e2), for two entries of which one at least exists.
diffEntry(dn, e1, e2) ==
    LET AddEntry(attr) ==
            [i \in 1..Len(e1[attr]) |-> addAction("addEntry", dn, attr, e1[attr][i])]
        OfE1(attr) ==
            IF e1[attr] # <<>> THEN diffAttr(dn, attr, e1, e2) ELSE <<>>
        OnlyE2(attr) ==
            IF e2[attr] # <<>> /\ e1[attr] = <<>>
            THEN diffAttr(dn, attr, NoEntry, e2) ELSE <<>>
    IN  IF e1 = NoEntry
        THEN <<addAction("deleteEntry", dn, "fullRemoval", "True")>>
        ELSE IF e2 = NoEntry
        THEN AddEntry(DiffAttrs[1]) \o AddEntry(DiffAttrs[2])
        ELSE OfE1(DiffAttrs[1]) \o OfE1(DiffAttrs[2])
             \o OnlyE2(DiffAttrs[1]) \o OnlyE2(DiffAttrs[2])

\* DiffResult.diff(entry1Dict, entry2Dict): the DNs of the first dict, then
\* those only the second one holds.
diff(d1, d2) ==
    LET Of(dn) ==
            IF d1[dn] = NoEntry /\ d2[dn] = NoEntry THEN <<>>
            ELSE diffEntry(dn, d1[dn], d2[dn])
        In1(dn) == IF d1[dn] # NoEntry THEN Of(dn) ELSE <<>>
        Only2(dn) == IF d1[dn] = NoEntry THEN Of(dn) ELSE <<>>
    IN  In1(DiffDNs[1]) \o In1(DiffDNs[2]) \o Only2(DiffDNs[1]) \o Only2(DiffDNs[2])

\* What one recorded modifier stands for (class DiffResult, ACTIONS), carried
\* out on a store: addEntry and addValue add the value, deleteEntry removes the
\* entry, deleteValue removes the value (all values for None), replaceValue
\* leaves the recorded value as the only one.
ApplyAction(store, m) ==
    LET cur == store[m.dn][m.attr]
        Other(v) == KeyNormalized(v) # KeyNormalized(m.val)
    IN  CASE m.action = "deleteEntry" -> [store EXCEPT ![m.dn] = NoEntry]
          [] m.action \in {"addEntry", "addValue"} ->
                [store EXCEPT ![m.dn][m.attr] =
                    IF \E i \in 1..Len(cur) : ~Other(cur[i]) THEN cur
                    ELSE Append(cur, m.val)]
          [] m.action = "deleteValue" ->
                [store EXCEPT ![m.dn][m.attr] =
                    IF m.val = "None" THEN <<>> ELSE SelectSeq(cur, Other)]
          [] OTHER -> [store EXCEPT ![m.dn][m.attr] = <<m.val>>]

RECURSIVE ApplyDiff(_, _)
ApplyDiff(store, mods) ==
    IF mods = <<>> THEN store
    ELSE ApplyDiff(ApplyAction(store, Head(mods)), Tail(mods))

\* Two stores hold the same entries with the same value sets.
SameStore(s1, s2) ==
    \A dn \in DOMAIN s1 : \A a \in DOMAIN s1[dn] :
        NormSet(s1[dn][a]) = NormSet(s2[dn][a])

\* What is kept of an operation on snapshots.
Diffed(kind, mods, arg, res) == [kind |-> kind, mods |-> mods, arg |-> arg, res |-> res]

\* The diff of the two snapshots, carried out on a store made from the first.
ApplyToFirst ==
    /\ srv' = ApplyDiff(desired.a, diff(desired.a, desired.b))
    /\ last' = Diffed("applyToFirst", diff(desired.a, desired.b), "", "")
    /\ UNCHANGED desired

\* The diff of the two snapshots, carried out on a store made from the second.
ApplyToSecond ==
    /\ srv' = ApplyDiff(desired.b, diff(desired.a, desired.b))
    /\ last' = Diffed("applyToSecond", diff(desired.a, desired.b), "", "")
    /\ UNCHANGED desired

\* The diff of the first snapshot with itself (as getFacts computes it when the
\* dse.ldif of the instance is the default one).
DiffSelf ==
    /\ last' = Diffed("diffSelf", diff(desired.a, desired.a), "", "")
    /\ UNCHANGED <<srv, desired>>

\* The spellings of a DN, an attribute name and a value that callers pass.
Spellings ==
    {"cn=config", "CN=Config", "cn = config", "cn=a,cn=config", "CN=A, CN=Config"}

\* The DNs a snapshot indexes (DSE.dn2entry).
IndexedDNs(d) == {dn \in DOMAIN d : d[dn] # NoEntry}

\* DSE.getEntry on the first snapshot, by any spelling, as Key or as str.
GetEntry ==
    \E s \in Spellings, k \in BOOLEAN :
        /\ last' = Diffed("getEntry", <<>>, PyStr(s, k),
                          getEntry(IndexedDNs(desired.a), PyStr(s, k)))
        /\ UNCHANGED <<srv, desired>>

\* Entry.hasValue on the entry cn=config of the first snapshot, the attribute
\* and the value given by any spelling, as Key or as str.
HasValue ==
    \E a \in {"cn", "CN", "p"}, ak \in BOOLEAN, v \in DiffValues :
        LET e == desired.a[DiffDNs[1]]
            attrKeys == {n \in DOMAIN e : e[n] # <<>>}
        IN  /\ e # NoEntry
            /\ last' = Diffed("hasValue", <<>>, [attr |-> PyStr(a, ak), val |-> v],
                              hasValue(e, attrKeys, PyStr(a, ak), PyStr(v, FALSE)))
            /\ UNCHANGED <<srv, desired>>

InitDiff ==
    /\ desired \in {[a |-> x, b |-> y] : x \in Snapshots, y \in Snapshots}
    /\ srv = desired.a
    /\ last = Diffed("none", <<>>, "", "")

NextDiff == ApplyToFirst \/ ApplyToSecond \/ DiffSelf \/ GetEntry \/ HasValue

SpecDiff == InitDiff /\ [][NextDiff]_vars

(* ------------------------------------------------------------------ *)
(* The attributes ignored while dse.ldif is read                       *)
(* ------------------------------------------------------------------ *)

\* IGNOREATTRS of ds389_util.py, as written there.
IGNOREATTRS ==
    {"creatorsName", "modifiersName", "createTimestamp", "modifyTimestamp",
     "numSubordinates", "nsslapd-plugindescription", "nsslapd-pluginid",
     "nsslapd-pluginvendor", "nsslapd-pluginversion", "nsstate"}

\* str.lower() of an attribute type, as ldif.LDIFRecordList applies it to the
\* ignored types and to the types it reads.
LdifLower(a) ==
    CASE a = "nsState"         -> "nsstate"
      [] a = "creatorsName"    -> "creatorsname"
      [] a = "modifiersName"   -> "modifiersname"
      [] a = "createTimestamp" -> "createtimestamp"
      [] a = "modifyTimestamp" -> "modifytimestamp"
      [] a = "numSubordinates" -> "numsubordinates"
      [] OTHER                 -> a

\* The values that the server gives to the attribute nsState of cn=config.
StateValues == {<<"s1">>, <<"s2">>}

\* The entries of the configuration of a server, as dse.ldif and the live
\* server hold them: cn=config with cn, p and the server-maintained nsState;
\* the second entry does not exist.
RawConfigs ==
    {[dn \in {DiffDNs[1], DiffDNs[2]} |->
        IF dn = DiffDNs[1] THEN [cn |-> <<"x">>, p |-> q, nsState |-> st]
        ELSE [cn |-> <<>>, p |-> <<>>, nsState |-> <<>>]] :
        q \in {<<>>, <<"x">>, <<"y">>}, st \in StateValues}

\* The dse.ldif of the template that getDefaultDSE reads.
DefaultConfig ==
    [dn \in {DiffDNs[1], DiffDNs[2]} |->
        IF dn = DiffDNs[1] THEN [cn |-> <<"x">>, p |-> <<"x">>, nsState |-> <<"s1">>]
        ELSE [cn |-> <<>>, p |-> <<>>, nsState |-> <<>>]]

\* DSE.__init__: the records of the file without the attributes whose type is
\* one of the ignored ones.
ParseDse(raw) ==
    [dn \in DOMAIN raw |->
        [a \in {n \in DOMAIN raw[dn] : LdifLower(n) \notin {LdifLower(i) : i \in IGNOREATTRS}}
            |-> raw[dn][a]]]

\* Entry.fromDS(dirSrv, dn): the live entry with all that the search returns.
fromDS(raw, dn) == raw[dn]

\* Entry.getSingleValue(attr) on an entry of a parsed file.
getSingleValue(e, attr) == IF e[attr] = <<>> THEN "None" ELSE e[attr][1]

\* ConfigInstance.getFacts: the option read from p of cn=config, set when it
\* has a value other than the default one, and the dseMods.
IgnFacts(raw) ==
    LET dse == ParseDse(raw)
        val == getSingleValue(dse[DiffDNs[1]], "p")
        vdef == getSingleValue(ParseDse(DefaultConfig)[DiffDNs[1]], "p")
    IN  [p |-> IF val # "None" /\ val # vdef THEN val ELSE "None",
         dseMods |-> diff(dse, ParseDse(DefaultConfig))]

\* The values of a modifier that the live entry holds (TRUE) or not (FALSE),
\* with Entry.hasValue; KeyError when hasValue raises it.
LiveHas(e, m) ==
    hasValue(e, {n \in DOMAIN e : e[n] # <<>>}, PyStr(m.attr, FALSE), PyStr(m.val, FALSE))

\* ConfigInstance._filter_ops_add_value_cb: the error it ends with, "" if
\* none.  A value that the entry does not hold makes it build an operation
\* with LdapOp.ADD_VALUE, which LdapOp does not define.
filter_ops_add_value_cb(e, m) ==
    CASE LiveHas(e, m) = "KeyError" -> "KeyError"
      [] LiveHas(e, m) = "False" ->
            "AttributeError: type object 'LdapOp' has no attribute 'ADD_VALUE'"
      [] OTHER -> ""

\* ConfigInstance._filter_ops_delete_value_cb, likewise with DEL_VALUE for a
\* value that the entry holds.
filter_ops_delete_value_cb(e, m) ==
    CASE LiveHas(e, m) = "KeyError" -> "KeyError"
      [] LiveHas(e, m) = "True" ->
            "AttributeError: type object 'LdapOp' has no attribute 'DEL_VALUE'"
      [] OTHER -> ""

\* ConfigInstance.filterOps for the modifier of the dseMods on cn=config: the
\* error that ends it, "" when it returns; it never returns an operation,
\* since isAttrUpToDate finds every replaced attribute up to date.
IgnFilterOps(raw, m) ==
    LET e == fromDS(raw, DiffDNs[1])
    IN  CASE m.action = "addValue"    -> filter_ops_add_value_cb(e, m)
          [] m.action = "deleteValue" -> filter_ops_delete_value_cb(e, m)
          [] OTHER                    -> ""

\* MyConfigObject.update of the instance from applyMods on: the dseMods are
\* filtered against the live entries, then the children are updated; a
\* declared backend that does not exist is created unless the pass is a check.
IgnUpdate(raw, d, onlycheck) ==
    LET err == IgnFilterOps(raw, d)
    IN  [err |-> err,
         ops |-> IF err = "" /\ d.be /\ ~onlycheck
                 THEN <<Op("create_backend", "be1", 0)>> ELSE <<>>]

\* What a pass yields on a server: the facts, with the DiffResult, and the
\* writes it sends.
IgnOutcome(raw, d, onlycheck) ==
    [facts |-> IgnFacts(raw), ops |-> IgnUpdate(raw, d, onlycheck).ops,
     err |-> IgnUpdate(raw, d, onlycheck).err]

\* One pass on the server.
RunOnDse ==
    \E onlycheck \in BOOLEAN :
        /\ last' = [kind |-> "dse", dry |-> onlycheck, pre |-> srv,
                    out |-> IgnOutcome(srv, desired, onlycheck)]
        /\ UNCHANGED <<srv, desired>>

\* The server rewrites the state it maintains.
ServerMaintains ==
    \E st \in StateValues :
        /\ srv' = [srv EXCEPT ![DiffDNs[1]].nsState = st]
        /\ UNCHANGED <<desired, last>>

InitIgnored ==
    /\ srv \in RawConfigs
    /\ desired \in [action : {"addValue", "deleteValue", "replaceValue"},
                    attr : {"p", "nsstate"}, val : {"x", "s1"}, be : BOOLEAN]
    /\ last = [kind |-> "none", dry |-> FALSE, pre |-> srv,
               out |-> IgnOutcome(srv, desired, FALSE)]

NextIgnored == RunOnDse \/ ServerMaintains

SpecIgnored == InitIgnored /\ [][NextIgnored]_vars

(* ------------------------------------------------------------------ *)
(* The option actions of an entity and their order                     *)
(* ------------------------------------------------------------------ *)

\* Option(name, prio, required): options of ConfigBackend.OTHER_OPTIONS.
Option(name, prio, required) == [name |-> name, prio |-> prio, required |-> required]

SchemaOptions ==
    {Option("readonly", 10, FALSE), Option("require_index", 10, FALSE),
     Option("entry_cache_number", 10, FALSE), Option("suffix", 5, TRUE),
     Option("state", 2, FALSE)}

\* The orders in which a schema can declare these options; OTHER_OPTIONS
\* declares them as readonly, require_index, entry_cache_number, suffix, state.
Declarations ==
    {o \in [1..Cardinality(SchemaOptions) -> SchemaOptions] :
        \A i, j \in DOMAIN o : i # j => o[i] # o[j]}

\* OptionAction.getPrio().
getPrio(o) == o.prio

\* The place of an action in a list that sorted() keeps stable: behind every
\* action whose key is not greater.
RECURSIVE InsertStable(_, _)
InsertStable(sorted, o) ==
    IF sorted = <<>> THEN <<o>>
    ELSE IF getPrio(Head(sorted)) <= getPrio(o)
    THEN <<Head(sorted)>> \o InsertStable(Tail(sorted), o)
    ELSE <<o>> \o sorted

\* sorted(actions, key = lambda x : x.getPrio()).
RECURSIVE SortedByPrio(_)
SortedByPrio(actions) ==
    IF actions = <<>> THEN <<>>
    ELSE InsertStable(SortedByPrio(SubSeq(actions, 1, Len(actions) - 1)),
                      actions[Len(actions)])

\* MyConfigObject.getAllActions(facts): one action per option, in the order of
\* OPTIONS, then sorted by priority.
getAllActions(options) == SortedByPrio(options)

\* getAllActions on an entity whose schema declares the options in this order.
GetAllActions ==
    /\ last' = [kind |-> "actions", res |-> getAllActions(desired)]
    /\ UNCHANGED <<srv, desired>>

InitActions ==
    /\ srv = NoServer
    /\ desired \in Declarations
    /\ last = [kind |-> "none", res |-> <<>>]

NextActions == GetAllActions

SpecActions == InitActions /\ [][NextActions]_vars

(* ------------------------------------------------------------------ *)
(* Properties                                                          *)
(* ------------------------------------------------------------------ *)

\* The replica operations among the operations of a pass.
ReplicaOps(ops) ==
    SelectSeq(ops, LAMBDA o : o.op \in {"demote", "delete_replica", "create_replica",
                                        "promote"})

\* The operations of a pass that write to the server: all but start and stop.
WriteOps(ops) == SelectSeq(ops, LAMBDA o : o.op \notin {"start", "stop"})

\* The replica id a replica of the role carries: the declared one for a
\* supplier, HubRid for a hub or a consumer.
RoleRid(role, rid) == IF role = "supplier" THEN rid ELSE HubRid

\* C1 (as stated; violated): a non-dry-run pass that follows a completed
\* non-dry-run pass of the same tree has an empty change summary.
C1_SecondPassEmpty ==
    (last.kind = "update" /\ ~last.dry /\ last.afterOk) => last.sum = <<>>

\* C2 (as stated; violated): after a non-dry-run pass that completed without
\* error, every present entity of the tree exists and every option the tree
\* sets on it (port, replica role, replica id) has the declared value.
C2_Converged ==
    (last.kind = "update" /\ ~last.dry /\ last.err = "" /\ desired.rootState # "absent"
        /\ desired.instDecl /\ desired.instState = "present")
    => /\ srv.inst
       /\ (desired.port # "None" => srv.port = desired.port)
       /\ (desired.beDecl /\ desired.beState = "present"
            => /\ srv.be
               /\ (desired.role # "None" => srv.role = desired.role)
               /\ (desired.rid # 0 => srv.rid = desired.rid)
               /\ (desired.idxDecl /\ desired.idxState = "present" => srv.idx))

\* C3 (as stated; violated): a non-dry-run pass that declares a role r2 other
\* than none, with a consistent replica id, for an existing backend whose
\* role is r1 # r2 leaves the replica with the type, flags and id of r2.
C3_RoleSwitched ==
    (last.kind = "update" /\ ~last.dry /\ desired.rootState = "present"
        /\ desired.started = "bool:True" /\ last.pre.be /\ desired.beDecl
        /\ desired.beState = "present" /\ desired.role # "None"
        /\ desired.role # last.pre.role
        /\ ReplicaRoleCheck(desired.role, desired.rid) = "")
    => /\ srv.be
       /\ ReplicaType(srv.role) = ReplicaType(desired.role)
       /\ ReplicaFlags(srv.role) = ReplicaFlags(desired.role)
       /\ srv.rid = RoleRid(desired.role, desired.rid)

\* C4: among the replica operations one run of update_replica emits, no
\* delete, create or promote comes before a demote.
C4_DemoteFirst ==
    \A i, j \in 1..Len(last.ops) :
        (i < j /\ last.ops[j].op = "demote")
        => last.ops[i].op \notin {"delete_replica", "create_replica", "promote"}

\* C4 witness: a run of update_replica that demoted and then deleted or
\* promoted the replica.
C4_Witness ==
    /\ last.kind = "replica" /\ ~last.dry
    /\ \E i, j \in 1..Len(last.ops) :
        /\ i < j /\ last.ops[i].op = "demote"
        /\ last.ops[j].op \in {"delete_replica", "promote"}

\* C5 (as stated; violated): from an observed supplier to a desired consumer,
\* which carries no replica id, the replica operations of update_replica are
\* exactly one demote to consumer.
C5_SupplierToConsumer ==
    (last.kind = "replica" /\ ~last.dry /\ last.pre.role = "supplier"
        /\ desired.role = "consumer" /\ desired.rid = 0)
    => ReplicaOps(last.ops) = <<Op("demote", "consumer", 0)>>

\* C6 (as stated; violated): a pass over a tree whose backend declares a
\* supplier without a replica id, or another role with one, fails, and has
\* issued no write and changed nothing but the running state by then.
C6_InvalidRoleFailsFirst ==
    (last.kind = "update" /\ desired.rootState = "present" /\ desired.beDecl
        /\ desired.started = "bool:True"
        /\ ReplicaRoleCheck(desired.role, desired.rid) # "")
    => /\ last.err # ""
       /\ WriteOps(last.ops) = <<>>
       /\ [srv EXCEPT !.run = TRUE] = [last.pre EXCEPT !.run = TRUE]

C8_DryRunChangesNothing ==
    (last.kind = "update" /\ last.dry) => srv = last.pre

\* C9 (as stated; violated): a dry-run pass completes without error and its
\* summary is the summary of the non-dry-run pass from the same server.
C9_DryRunAccurate ==
    (last.kind = "update" /\ last.dry)
    => (last.err = "" /\ (last.twinErr = "" => last.sum = last.twinSum))

\* C10 (as stated; violated): a non-dry-run pass over a tree that declares an
\* existing backend with state updated neither deletes nor creates the
\* backend, and keeps an index of it that the tree does not list.
C10_UpdatedReconcilesOnly ==
    (last.kind = "update" /\ ~last.dry /\ desired.rootState = "present"
        /\ desired.started = "bool:True" /\ desired.beDecl
        /\ desired.beState = "updated" /\ last.pre.be)
    => /\ srv.be
       /\ \A i \in 1..Len(last.ops) : last.ops[i].op # "delete_backend"
       /\ (last.pre.idx /\ ~desired.idxDecl => srv.idx)

\* Whether the tree declares the instance, the backend, the index with state
\* absent, at its own level or above.
InstanceAbsent(d) == d.instDecl /\ d.instState = "absent"

BackendAbsent(d) == InstanceAbsent(d) \/ (d.beDecl /\ d.beState = "absent")

IndexAbsent(d) == BackendAbsent(d) \/ (d.idxDecl /\ d.idxState = "absent")

\* C11 (as stated; violated): after a non-dry-run pass with root state
\* updated, an instance, backend or index that existed and that the tree no
\* longer lists under its listed parent is gone, and every entity the tree
\* lists without declaring it absent is still there.
C11_UpdatedRemovesUnlisted ==
    (last.kind = "update" /\ ~last.dry /\ desired.rootState = "updated")
    => /\ (last.pre.inst /\ ~desired.instDecl => ~srv.inst)
       /\ (last.pre.be /\ desired.instDecl /\ ~InstanceAbsent(desired) /\ ~desired.beDecl
            => ~srv.be)
       /\ (last.pre.idx /\ desired.beDecl /\ ~BackendAbsent(desired) /\ ~desired.idxDecl
            => ~srv.idx)
       /\ (last.pre.inst /\ desired.instDecl /\ ~InstanceAbsent(desired) => srv.inst)
       /\ (last.pre.be /\ desired.beDecl /\ ~BackendAbsent(desired) => srv.be)
       /\ (last.pre.idx /\ desired.idxDecl /\ ~IndexAbsent(desired) => srv.idx)

\* C12 (as stated; violated): after a non-dry-run pass with root state
\* present, every instance, backend and index that existed before the pass and
\* that the tree does not declare absent (itself or through a parent) exists.
C12_PresentNeverDeletes ==
    (last.kind = "update" /\ ~last.dry /\ desired.rootState = "present")
    => /\ (last.pre.inst /\ ~InstanceAbsent(desired) => srv.inst)
       /\ (last.pre.be /\ ~BackendAbsent(desired) => srv.be)
       /\ (last.pre.idx /\ ~IndexAbsent(desired) => srv.idx)

C14_PresentCreates ==
    (last.kind = "update" /\ ~last.dry /\ desired.rootState = "present"
        /\ desired.instDecl /\ desired.instState = "present")
    => /\ srv.inst
       /\ (desired.beDecl /\ desired.beState = "present" => srv.be)
       /\ (desired.beDecl /\ desired.beState = "present" /\ desired.idxDecl
            /\ desired.idxState = "present" => srv.idx)

\* C15: a non-dry-run pass whose tree, with the default root state, declares
\* instance i1 absent completes without error and leaves no instance; when i1
\* existed its summary has exactly one entry, the removal of i1, and when i1
\* was already gone the summary is empty.
C15_InstanceAbsent ==
    (last.kind = "update" /\ ~last.dry /\ desired.rootState = "present"
        /\ InstanceAbsent(desired))
    => /\ last.err = ""
       /\ ~srv.inst
       /\ last.sum = IF last.pre.inst THEN <<"Removing instance i1">> ELSE <<>>

\* C15 witness: such a pass has run on a host that held the instance.
C15_Witness ==
    /\ last.kind = "update" /\ ~last.dry /\ desired.rootState = "present"
    /\ InstanceAbsent(desired) /\ last.pre.inst /\ last.pre.be
    /\ Len(last.sum) = 1 /\ ~srv.inst

\* C16 (as stated; violated): a non-dry-run pass whose root state is absent
\* completes without error and leaves no instance that existed before it.
C16_RootAbsentRemovesAll ==
    (last.kind = "update" /\ ~last.dry /\ desired.rootState = "absent")
    => /\ last.err = ""
       /\ (last.pre.inst => ~srv.inst)

\* C17 (as stated; violated): the first non-dry-run pass of a tree that declares
\* instance i1 present with one backend present, on a host without instance,
\* completes with a summary that holds the creation of the instance and the
\* creation of the backend.
C17_ScenarioA ==
    (last.kind = "update" /\ ~last.dry /\ last.pre = NoServer
        /\ desired.rootState = "present" /\ desired.instDecl
        /\ desired.instState = "present" /\ desired.started = "bool:True"
        /\ desired.beDecl /\ desired.beState = "present")
    => /\ last.err = ""
       /\ \E i \in 1..Len(last.sum) : last.sum[i] = "Creating instance slapd-i1"
       /\ \E i \in 1..Len(last.sum) :
            last.sum[i] = "Creating backend be1 on suffix dc=example,dc=com"

\* The declared choices of a state key and the key left out.
RootKeepsInstances(r) == Lower(r.rootState) \in {"omitted", "present"}

\* C18 (as stated; violated): an entity whose record holds no state key is
\* loaded with state present, and a non-dry-run run of the module on an input
\* the argument spec accepts, whose root does not ask for removal, leaves every
\* listed entity without state key (under parents without state key) in place:
\* created when it was missing, not deleted when it existed.
C18_OmittedStateIsPresent ==
    /\ (last.kind = "load" /\ last.err = "")
        => /\ (desired.rootState = "omitted" => last.tree.rootState = "present")
           /\ (desired.instDecl /\ desired.instState = "omitted"
                => last.tree.instState = "present")
           /\ (desired.beDecl /\ desired.beState = "omitted"
                => last.tree.beState = "present")
           /\ (desired.idxDecl /\ desired.idxState = "omitted"
                => last.tree.idxState = "present")
    /\ (last.kind = "module" /\ ~last.dry /\ AnsibleError(desired) = ""
            /\ RootKeepsInstances(desired) /\ desired.instDecl
            /\ desired.instState = "omitted")
        => /\ srv.inst
           /\ (desired.beDecl /\ desired.beState = "omitted" => srv.be)
           /\ (desired.idxDecl /\ desired.beState = "omitted"
                /\ desired.idxState = "omitted" => srv.idx)

\* C19 (as stated; violated): loading an input that carries a field declared
\* by no schema fails, whatever the name or the value of the field.
C19_UnknownFieldRejected ==
    (last.kind = "load" /\ desired.extra.at # "none") => last.err # ""

\* C19 (amended): loading an input that carries a field declared by no schema
\* fails, at every level, unless the field is named tag, its name starts
\* with an underscore or its value is null; such a field is dropped.
C19_UnknownFieldRejectedUnlessSkipped ==
    (last.kind = "load" /\ desired.extra.at # "none")
    => (last.err # ""
        <=> ~(\/ desired.extra.name = "tag"
              \/ desired.extra.name = "_color"
              \/ desired.extra.null))

\* C19 witness: an input whose backend carries the field color with a value
\* was loaded and rejected.
C19_Witness ==
    /\ last.kind = "load" /\ desired.extra.at = "backend"
    /\ desired.extra.name = "color" /\ ~desired.extra.null
    /\ last.err # ""

\* An input with a schema error: a field no schema declares, a backend without
\* suffix, or a state that is none of the choices CONTENT_OPTIONS declares.
SchemaError(r) ==
    \/ r.extra.at # "none"
    \/ (r.beDecl /\ ~r.suffix)
    \/ \E v \in ListedStates(r) : v # "omitted" /\ v \notin States

\* C20 (as stated; violated): a run of the module on an input with a schema
\* error fails, has issued no operation by then and leaves the server as it
\* was.
C20_SchemaErrorFatalBeforeWrite ==
    (last.kind = "module" /\ SchemaError(desired))
    => /\ last.err # ""
       /\ last.ops = <<>>
       /\ srv = last.pre

\* C21 (as stated; violated): when the modifiers of diff(A, B) are carried out
\* on a store made from A, the store holds the entries of B with the value sets
\* of B.
C21_DiffApplyRoundTrip ==
    last.kind = "applyToFirst" => SameStore(srv, desired.b)

\* Whether the entry holds the attribute of that name with a value that equals
\* v up to letter case.
HoldsValue(e, attr, v) ==
    /\ KeyNormalized(attr) \in DOMAIN e
    /\ KeyNormalized(v) \in NormSet(e[KeyNormalized(attr)])

\* C22 (as stated; violated): two spellings of a DN that differ in letter case
\* or in blanks around the separators have the same hash, are equal, and
\* getEntry by either finds the entry the index holds under that DN; and
\* hasValue(attr, v) is True whenever the entry holds, for that attribute, a
\* value equal to v up to letter case.
C22_NormalizationInvariance ==
    /\ \A s \in Spellings, t \in Spellings :
        KeyNormalized(s) = KeyNormalized(t)
        => /\ PyHash(PyStr(s, TRUE)) = PyHash(PyStr(t, TRUE))
           /\ KeyEq(PyStr(s, TRUE), PyStr(t, TRUE))
           /\ KeyEq(PyStr(s, TRUE), PyStr(t, FALSE))
    /\ last.kind = "getEntry"
        => last.res = IF KeyNormalized(last.arg.s) \in IndexedDNs(desired.a)
                      THEN KeyNormalized(last.arg.s) ELSE "None"
    /\ (last.kind = "hasValue"
            /\ HoldsValue(desired.a[DiffDNs[1]], last.arg.attr.s, last.arg.val))
        => last.res = "True"

\* C23: the diff of a snapshot with itself records nothing.
C23_DiffSelfEmpty ==
    last.kind = "diffSelf" => last.mods = <<>>

\* C23 witness: a snapshot of two entries, the first with two values of cn and
\* a value of p, was compared with itself.
C23_Witness ==
    /\ last.kind = "diffSelf"
    /\ Len(desired.a[DiffDNs[1]].cn) = 2 /\ desired.a[DiffDNs[1]].p # <<>>
    /\ desired.a[DiffDNs[2]] # NoEntry
    /\ last.mods = <<>>

\* C24 (as stated; violated): a pass that is no dry run and leaves the server
\* in another state than it found it ends with a summary that is not empty.
C24_ChangeIsReported ==
    (last.kind = "update" /\ ~last.dry /\ srv # last.pre) => last.sum # <<>>

\* C25 (as stated; violated): a replaceValue staged for nsslapd-port of an
\* existing instance whose live port differs from the wanted one is not
\* dropped by filterOps: the pass writes the port, or fails in writing it.
C25_StagedReplaceNotDropped ==
    (/\ last.kind = "update" /\ ~last.dry /\ last.pre.inst
     /\ desired.rootState = "present" /\ desired.instDecl
     /\ desired.instState = "present" /\ desired.started = "bool:True"
     /\ ~desired.beDecl
     /\ desired.port # "None" /\ desired.port # last.pre.port)
    => (last.err # "" \/ srv.port = desired.port)

\* The place of an option name in the order of Python strings.
NameRank(name) ==
    CASE name = "entry_cache_number" -> 1
      [] name = "readonly"           -> 2
      [] name = "require_index"      -> 3
      [] name = "state"              -> 4
      [] OTHER                       -> 5

\* (priority, required before optional, name) of o is not greater than that
\* of p.
KeyLeq(o, p) ==
    LET ro == IF o.required THEN 0 ELSE 1
        rp == IF p.required THEN 0 ELSE 1
    IN  \/ o.prio < p.prio
        \/ (o.prio = p.prio /\ ro < rp)
        \/ (o.prio = p.prio /\ ro = rp /\ NameRank(o.name) <= NameRank(p.name))

\* C26 (as stated; violated): the actions getAllActions returns are in the
\* order of (priority, required before optional, name), whatever the order in
\* which the schema declares the options.
C26_ActionsTotallyOrdered ==
    last.kind = "actions"
    => \A i, j \in 1..Len(last.res) : i < j => KeyLeq(last.res[i], last.res[j])

\* Whether the server runs after the first n operations of a pass that found
\* it running or not (run): start and dscreate leave it running, stop and
\* delete_instance leave it stopped.
RECURSIVE RunAfter(_, _, _)
RunAfter(run, ops, n) ==
    IF n = 0 THEN run
    ELSE CASE ops[n].op \in {"start", "dscreate"}       -> TRUE
           [] ops[n].op \in {"stop", "delete_instance"} -> FALSE
           [] OTHER                                     -> RunAfter(run, ops, n - 1)

\* The configuration writes among the operations: all but start, stop and the
\* creation or removal of the instance itself.
ConfigWrite(o) == o.op \notin {"start", "stop", "dscreate", "delete_instance"}

\* C27: in a pass on a tree that lists the instance as present, every
\* configuration write is issued while the server runs, and when the wanted
\* started value is not true no write follows the last stop.
C27_StartedRunsLast ==
    (last.kind = "update" /\ desired.instDecl /\ desired.instState = "present")
    => \A i \in 1..Len(last.ops) :
        ConfigWrite(last.ops[i])
        => /\ RunAfter(last.pre.run, last.ops, i - 1)
           /\ \A j \in 1..(i - 1) : last.ops[j].op # "stop"

\* C27 witness: a pass that was no dry run found the server stopped, wrote to
\* its configuration and stopped it as its last operation, the wanted started
\* value being "stopped".
C27_Witness ==
    /\ last.kind = "update" /\ ~last.dry /\ last.err = ""
    /\ desired.instDecl /\ desired.instState = "present"
    /\ desired.started = "str:stopped" /\ ~last.pre.run /\ last.pre.inst
    /\ \E i \in 1..Len(last.ops) : ConfigWrite(last.ops[i])
    /\ last.ops[Len(last.ops)].op = "stop"
    /\ ~srv.run

C29_PromoteOnly ==
    (/\ last.kind = "replica" /\ ~last.dry
     /\ Weight(desired.role) > Weight(last.pre.role)
     /\ ReplicaRoleCheck(desired.role, desired.rid) = ""
     /\ (Weight(last.pre.role) # 0
            => RoleRid(desired.role, desired.rid) = last.pre.rid))
    => /\ Len(ReplicaOps(last.ops)) = 1
       /\ ReplicaOps(last.ops)[1].op
            = IF Weight(last.pre.role) = 0 THEN "create_replica" ELSE "promote"
       /\ ReplicaOps(last.ops)[1].arg = desired.role

\* C30 (as stated; violated): after a non-dry-run pass that completed without
\* error, an instance, a backend or an index that existed and that the tree
\* declares absent, below parents it declares present, is gone from the
\* server and from the fact tree of the pass.
C30_AbsentIsForgotten ==
    (last.kind = "update" /\ ~last.dry /\ last.err = "" /\ desired.rootState = "present"
        /\ desired.instDecl)
    => /\ (desired.instState = "absent" /\ last.pre.inst)
            => (~srv.inst /\ ~last.facts.inst)
       /\ (desired.instState = "present" /\ desired.beDecl
                /\ desired.beState = "absent" /\ last.pre.be)
            => (~srv.be /\ ~last.facts.be)
       /\ (desired.instState = "present" /\ desired.beDecl
                /\ desired.beState = "present" /\ desired.idxDecl
                /\ desired.idxState = "absent" /\ last.pre.idx)
            => (~srv.idx /\ ~last.facts.idx)

\* C31 (as stated; violated): in a non-dry-run pass that deleted the backend,
\* nothing but starts and stops of the server follows the delete, and the
\* pass does not end on the server's answer ldap.NO_SUCH_OBJECT to an
\* operation on the replica or an index of the deleted backend.
C31_NothingAfterDelete ==
    (last.kind = "update" /\ ~last.dry)
    => \A i \in 1..Len(last.ops) :
        last.ops[i].op = "delete_backend"
        => /\ \A j \in (i + 1)..Len(last.ops) : last.ops[j].op \in {"start", "stop"}
           /\ last.err # "ldap.NO_SUCH_OBJECT"

\* Whether the change summary of the last pass holds the message.
InSummary(msg) == \E i \in 1..Len(last.sum) : last.sum[i] = msg

\* C32 (as stated; violated): in the change summary of a non-dry-run pass no
\* message occurs twice, the creation of the instance is not described both
\* by the root's state description and by the instance's own, and a pass
\* over a pre-existing instance holds no option-level description of a port,
\* backend or index change.
C32_DescribedOnce ==
    (last.kind = "update" /\ ~last.dry)
    => /\ \A i, j \in 1..Len(last.sum) : i < j => last.sum[i] # last.sum[j]
       /\ ~(InSummary("['Creating instance: i1']")
                /\ InSummary("Creating instance slapd-i1"))
       /\ (last.pre.inst /\ desired.rootState = "present")
            => /\ ~InSummary("Set nsslapd-port:" \o desired.port \o " in cn=config")
               /\ ~InSummary(BackendStateDesc(desired.beState))
               /\ ~InSummary(IndexStateDesc(desired.idxState))

\* C33 (as stated; violated): when a non-dry-run pass is ended by the
\* server's answer ldap.NO_SUCH_OBJECT to a write after it has written to the
\* server, the message of the result holds every description the summary
\* had gathered by then.
C33_PartialSummaryDelivered ==
    (last.kind = "update" /\ ~last.dry /\ last.err = "ldap.NO_SUCH_OBJECT"
        /\ WriteOps(last.ops) # <<>>)
    => last.message = last.sum

\* C34 (as stated; violated): when applyMods runs, not as a dry run, an
\* add-entry whose entry the server already holds, the run ends without
\* error and the entry then holds the value the add-entry carries.
C34_AddExistingUpdates ==
    (last.kind = "mods" /\ ~last.dry /\ desired.action = "addEntry" /\ last.pre.entry)
    => /\ last.err = ""
       /\ srv.entry /\ srv.val = desired.val

\* C35 (as stated; violated): when applyMods runs, not as a dry run, a
\* replace of an attribute that the running server only lets change offline,
\* by a value the entry does not hold, the run ends with NotImplementedError.
C35_OfflineOnlySurfaced ==
    (last.kind = "mods" /\ ~last.dry /\ desired.action = "replaceValue"
        /\ last.pre.entry /\ last.pre.offline /\ last.pre.val # desired.val)
    => last.err = "NotImplementedError: Code not yet implemented."

\* C36 (as stated; violated): a non-dry-run pass issues no index operation
\* while the server does not hold the backend of the index: over a host
\* without the backend and a tree that declares the backend absent, where
\* the backend's own state action does nothing, the pass does not end on the
\* server's answer ldap.NO_SUCH_OBJECT to an operation on the index.
C36_ParentBeforeChild ==
    (last.kind = "update" /\ ~last.dry /\ desired.beDecl /\ desired.beState = "absent"
        /\ ~last.pre.be /\ desired.idxDecl)
    => last.err # "ldap.NO_SUCH_OBJECT"

\* C37 (as stated; violated): in a non-dry-run pass an option that the tree
\* does not set (its wanted value is str(None)) is neither described in the
\* summary nor staged as a modifier.
C37_UnsetUntouched ==
    (last.kind = "update" /\ ~last.dry)
    => /\ \A i \in 1..Len(last.staged) : last.staged[i].val # "None"
       /\ ~InSummary("Set nsslapd-port:None in cn=config")
       /\ ~InSummary("Set nsslapd-readonly:None in " \o BEDN)
       /\ ~InSummary("Set nsSystemIndex:None in " \o IDXDN)

\* Whether the string holds the value as a substring.
Contains(str, v) ==
    \E i \in 1..(Len(str) - Len(v) + 1) : SubSeq(str, i, i + Len(v) - 1) = v

\* C38 (as stated; violated): the value that the parameters give to a hidden
\* option occurs in no message of the summary and in no other field of the
\* result of the module.
C38_HiddenNeverShown ==
    last.kind = "result"
    => \A o \in HiddenOptions :
        desired[o] # "None"
        => /\ \A i \in 1..Len(last.message) : ~Contains(last.message[i], desired[o])
           /\ \A key \in DOMAIN last.invocation : last.invocation[key] # desired[o]
           /\ \A key \in DOMAIN last.raw_invocation :
                last.raw_invocation[key] # desired[o]

\* The modifiers that a diff recorded for one attribute of one entry.
ModsOf(mods, dn, attr) ==
    LET Same(m) == m.dn = dn /\ m.attr = attr
    IN  SelectSeq(mods, Same)

\* C40: when both compared entries hold an attribute with exactly one value
\* each and the two values differ, the diff records for that attribute
\* exactly one replaceValue, which carries the one value list of the first
\* entry, and neither an addValue nor a deleteValue.
C40_SingleValuedReplace ==
    last.kind \in {"applyToFirst", "applyToSecond"}
    => \A dn \in DOMAIN desired.a : \A attr \in DOMAIN NoEntry :
        (/\ Len(desired.a[dn][attr]) = 1
         /\ Len(desired.b[dn][attr]) = 1
         /\ NormSeq(desired.a[dn][attr]) # NormSeq(desired.b[dn][attr]))
        => ModsOf(last.mods, dn, attr)
            = <<addAction("replaceValue", dn, attr, PyListRepr(desired.a[dn][attr]))>>

\* A diff of two snapshots whose entries cn=config hold one value of p each,
\* y in the first and x in the second, was computed.
C40_Witness ==
    /\ last.kind = "applyToFirst"
    /\ desired.a["cn=config"].p = <<"y">>
    /\ desired.b["cn=config"].p = <<"x">>
    /\ ModsOf(last.mods, "cn=config", "p") # <<>>

\* C39 (as stated; violated): two servers that differ only in the value of an
\* ignored attribute yield the same facts, the same DiffResult and the same
\* writes: whatever value the server had given to nsState, the pass would
\* have read the facts and sent the writes that it did.
C39_IgnoredNeverMatter ==
    last.kind = "dse"
    => \A st \in StateValues :
        LET twin == IgnOutcome([last.pre EXCEPT ![DiffDNs[1]].nsState = st], desired, last.dry)
        IN  /\ twin.facts = last.out.facts
            /\ twin.ops = last.out.ops

====
